---- MODULE Spec2Model ----
(***************************************************************************)
(* A model of the generation-orchestration pipeline of the pet-photo       *)
(* front end: the HTTP retry wrapper (fetchWithRetry), the two polling     *)
(* waiters (waitForGenerationCompletion, waitForGenerationResultUrl), the  *)
(* image-to-image pipeline (processWithImageToImageAndStyle) and the main  *)
(* page's handlers (processImageFile, analyzeImage, processImage).         *)
(*                                                                         *)
(* Every async function is cut at its awaits: one action per synchronous   *)
(* stretch of code between two suspension points.  The remote services     *)
(* are the environment: each answer is drawn from a small set.             *)
(***************************************************************************)
EXTENDS Integers, Sequences, FiniteSets, TLC

VARIABLES
    fr,        \* the fetchWithRetry call under study (SpecRetry)
    frHist,    \* history: the answers given to its requests, in order
    frWaits,   \* history: the setTimeout durations it slept, in order
    wc,        \* the waitForGenerationCompletion call under study (SpecPoll)
    wcH,       \* history: what an observer of that call has seen
    wr,        \* the waitForGenerationResultUrl call under study (SpecPoll)
    wrH,       \* history: what an observer of that call has seen
    env,       \* deployment configuration: which API keys are set
    ui,        \* the React state of the page component (Spec)
    rendered,  \* the state the last committed render closed over
    loads,     \* captured files whose FileReader has not called back yet
    analyses,  \* analyzeImage calls awaiting analyzeImageWithOpenAI
    clicks,    \* pending 100 ms timers that will click the process button
    runs,      \* processImage calls that have not reached their finally
    nCaptured, \* number of images captured so far
    nRuns,     \* number of processImage calls that passed the guard
    runH,      \* history: what an observer of the run under study has seen
               \* (SpecRun)
    dim,       \* the dimension normalisation under study (SpecDims)
    elem,      \* the element-weight normalisation under study (SpecWeights)
    txt,       \* the text separation under study (SpecText)
    ana,       \* the analysis requests under study (SpecAnalysis)
    multi      \* the multi-step pipeline run under study (SpecMulti)

retryVars == <<fr, frHist, frWaits>>

pollVars == <<wc, wcH, wr, wrH>>

pageVars == <<env, ui, rendered, loads, analyses, clicks, runs, nCaptured,
              nRuns>>

sideVars == <<runH, dim, elem, txt, ana, multi>>

vars == <<fr, frHist, frWaits, wc, wcH, wr, wrH, env, ui, rendered, loads,
          analyses, clicks, runs, nCaptured, nRuns, runH, dim, elem, txt,
          ana, multi>>

----------------------------------------------------------------------------
(* Bounds of the model *)

\* largest `retries` argument explored for fetchWithRetry
MaxRetries == 4

\* largest options.maxPolls explored for waitForGenerationCompletion
MaxPollsOption == 5

----------------------------------------------------------------------------
(* HTTP answers *)

\* the status codes the environment answers with
Statuses == {200, 401, 403, 429, 500}

Http(s) == [kind |-> "http", status |-> s]

\* fetch() rejecting: no HTTP answer at all (DNS, connection reset, CORS)
NetworkError == [kind |-> "error", status |-> 0]

Responses == {Http(s) : s \in Statuses} \cup {NetworkError}

\* Response.ok
IsOk(resp) == resp.kind = "http" /\ resp.status >= 200 /\ resp.status <= 299

----------------------------------------------------------------------------
(* fetchWithRetry(url, options, retries = 3, delay = 1000)                  *)
(*   pc: "fetch"    awaiting fetch(url, options) of attempt i               *)
(*       "sleep"    awaiting setTimeout(delay) in the catch block           *)
(*       "sleep429" awaiting setTimeout(delay * 2) of the 429 branch        *)
(*       "returned" resolved with the OK response                           *)
(*       "thrown"   rejected with err                                       *)
(*   sent counts the requests the call has issued.                          *)

DefaultRetries == 3

DefaultDelay == 1000

\* the call as it stands when the loop first reaches `await fetch`
FetchWithRetry(retries, delay) ==
    [pc |-> IF retries > 0 THEN "fetch" ELSE "thrown",
     i |-> 0, retries |-> retries, delay |-> delay,
     sent |-> IF retries > 0 THEN 1 ELSE 0,
     err |-> IF retries > 0 THEN "" ELSE "Maximum retries reached"]

\* (mutant) the catch block giving up one iteration early
FwrCatch_GivesUpEarly(f, e) ==
    IF f.i >= f.retries - 2
    THEN [f EXCEPT !.pc = "thrown", !.err = e]
    ELSE [f EXCEPT !.pc = "sleep"]

\* the catch block: rethrow on the last iteration, else sleep `delay`
FwrCatch(f, e) ==
    IF f.i = f.retries - 1
    THEN [f EXCEPT !.pc = "thrown", !.err = e]
    ELSE [f EXCEPT !.pc = "sleep"]

\* (mutant) the try block returns whatever response it received
FwrOnResponse_ReturnsAny(f, resp) ==
    IF resp.kind = "error" THEN FwrCatch(f, "Failed to fetch")
    ELSE [f EXCEPT !.pc = "returned"]

\* the body of the try block once fetch has settled with resp
FwrOnResponse(f, resp) ==
    IF resp.kind = "error" THEN FwrCatch(f, "Failed to fetch")
    ELSE IF IsOk(resp) THEN [f EXCEPT !.pc = "returned"]
    ELSE IF resp.status = 401 \/ resp.status = 403
         THEN FwrCatch(f, "AuthFailed")
    ELSE IF resp.status = 429 THEN [f EXCEPT !.pc = "sleep429"]
    ELSE FwrCatch(f, "HTTP error")

\* (mutant) a timer fired and the call gives up instead of fetching again
FwrOnTimer_GivesUp(f) ==
    [f EXCEPT !.pc = "thrown", !.i = f.i + 1,
              !.err = "Maximum retries reached"]

\* a timer fired: i++ and the loop test, then the next fetch or the final throw
FwrOnTimer(f) ==
    IF f.i + 1 < f.retries
    THEN [f EXCEPT !.pc = "fetch", !.i = f.i + 1, !.sent = f.sent + 1]
    ELSE [f EXCEPT !.pc = "thrown", !.i = f.i + 1,
                   !.err = "Maximum retries reached"]

\* (mutant) every wait lasts the base delay
FwrWait_Base(f) == f.delay

\* the duration of the setTimeout a sleeping call waits for
FwrWait(f) == IF f.pc = "sleep429" THEN f.delay * 2 ELSE f.delay

FwrSleeping(f) == f.pc \in {"sleep", "sleep429"}

FwrSettled(f) == f.pc \in {"returned", "thrown"}

----------------------------------------------------------------------------
(* Answers to GET /generations/{id}: the HTTP answer and, when it is OK,    *)
(* what response.json() yields.                                             *)
(*   PENDING, FAILED        generations_by_pk.status                        *)
(*   COMPLETE               status COMPLETE with generated_images[0]        *)
(*   COMPLETE_NOIMAGE       status COMPLETE without a generated image       *)
(*   OTHER                  a status the code does not know                 *)
(*   NODATA                 a body without generations_by_pk                *)
(*   BADJSON                response.json() throws                          *)

Bodies == {"PENDING", "COMPLETE", "COMPLETE_NOIMAGE", "FAILED", "OTHER",
           "NODATA", "BADJSON"}

PollAnswers ==
    {[resp |-> r, body |-> "NONE"] : r \in {x \in Responses : ~IsOk(x)}}
    \cup {[resp |-> Http(200), body |-> b] : b \in Bodies}

Min(a, b) == IF a <= b THEN a ELSE b

\* x * 1.5 (exact on the even values the delays take below the cap)
TimesOneAndHalf(x) == (x * 3) \div 2

----------------------------------------------------------------------------
(* waitForGenerationCompletion(generationId, options)                       *)
(*   pc: "fetch"  awaiting fetchWithRetry (f is that call)                  *)
(*       "sleep"  awaiting setTimeout(currentDelay)                         *)
(*       "done"   returned `result` ("imageId" or "null"); exit names the   *)
(*                return statement taken                                    *)

DefaultMaxPolls == 40

DefaultInitialDelay == 3000

DefaultMaxDelay == 10000

WcIdle ==
    [pc |-> "idle", pollCount |-> 0, currentDelay |-> 0, maxPolls |-> 0,
     maxDelay |-> 0, f |-> FetchWithRetry(0, 0), result |-> "none",
     exit |-> "none"]

\* the `while (pollCount < options.maxPolls)` test and what follows it
WcLoop(w) ==
    IF w.pollCount < w.maxPolls
    THEN [w EXCEPT !.pc = "fetch",
                   !.f = FetchWithRetry(DefaultRetries, DefaultDelay)]
    ELSE [w EXCEPT !.pc = "done", !.result = "null", !.exit = "timeout"]

WaitForGenerationCompletion(maxPolls, initialDelay, maxDelay) ==
    WcLoop([WcIdle EXCEPT !.currentDelay = initialDelay,
                          !.maxPolls = maxPolls, !.maxDelay = maxDelay])

\* the catch block of the loop body: no sleep, the delay doubled
WcCatch(w) ==
    WcLoop([w EXCEPT !.currentDelay = Min(w.currentDelay * 2, w.maxDelay),
                     !.pollCount = w.pollCount + 1])

\* fetchWithRetry resolved: response.json() and the switch on the status
WcOnBody(w, body) ==
    CASE body = "BADJSON" -> WcCatch(w)
      [] body = "COMPLETE" ->
           [w EXCEPT !.pc = "done", !.result = "imageId", !.exit = "complete"]
      [] body = "COMPLETE_NOIMAGE" ->
           [w EXCEPT !.pc = "done", !.result = "null", !.exit = "noimage"]
      [] body = "FAILED" ->
           [w EXCEPT !.pc = "done", !.result = "null", !.exit = "failed"]
      [] body = "PENDING" ->
           [w EXCEPT !.pc = "sleep",
                     !.currentDelay =
                         Min(TimesOneAndHalf(w.currentDelay), w.maxDelay)]
      [] OTHER -> [w EXCEPT !.pc = "sleep"]

\* the inner fetchWithRetry moved to g: go on according to how it stands
WcAfterFetchStep(w, g, body) ==
    IF g.pc = "returned" THEN WcOnBody([w EXCEPT !.f = g], body)
    ELSE IF g.pc = "thrown" THEN WcCatch([w EXCEPT !.f = g])
    ELSE [w EXCEPT !.f = g]

\* an answer to the request in flight
WcOnAnswer(w, a) == WcAfterFetchStep(w, FwrOnResponse(w.f, a.resp), a.body)

\* a timer of the inner fetchWithRetry fired
WcOnRetryTimer(w) == WcAfterFetchStep(w, FwrOnTimer(w.f), "NONE")

\* setTimeout(currentDelay) fired: pollCount++ and the loop test
WcOnTimer(w) == WcLoop([w EXCEPT !.pollCount = w.pollCount + 1])

----------------------------------------------------------------------------
(* waitForGenerationResultUrl(generationId)                                 *)
(*   pc: "fetch"  awaiting fetch of poll number pollCount                   *)
(*       "sleep"  awaiting setTimeout(POLL_INTERVAL)                        *)
(*       "done"   returned `result`, a LeonardoResponse; exit names the     *)
(*                return statement taken                                    *)

POLL_INTERVAL == 3000

MAX_POLLS == 40

Success(url) == [success |-> TRUE, imageUrl |-> url, error |-> ""]

Failure(msg) == [success |-> FALSE, imageUrl |-> "", error |-> msg]

WrIdle ==
    [pc |-> "idle", pollCount |-> 0, result |-> Failure(""), exit |-> "none"]

\* (mutant) the loop test off by one: `pollCount <= MAX_POLLS`
WrLoop_OneMore(w) ==
    IF w.pollCount <= MAX_POLLS
    THEN [w EXCEPT !.pc = "fetch", !.pollCount = w.pollCount + 1]
    ELSE [w EXCEPT !.pc = "done", !.exit = "timeout",
                   !.result = Failure("WaitTimedOut")]

\* the `while (pollCount < MAX_POLLS)` test, pollCount++ and the fetch
WrLoop(w) ==
    IF w.pollCount < MAX_POLLS
    THEN [w EXCEPT !.pc = "fetch", !.pollCount = w.pollCount + 1]
    ELSE [w EXCEPT !.pc = "done", !.exit = "timeout",
                   !.result = Failure("WaitTimedOut")]

WaitForGenerationResultUrl == WrLoop(WrIdle)

\* the function's catch block: the loop is left
WrCatch(w, msg) ==
    [w EXCEPT !.pc = "done", !.result = Failure(msg), !.exit = "exception"]

\* (mutant) COMPLETE with an image not recognised: the waiter polls on
WrOnComplete_KeepsPolling(w) == [w EXCEPT !.pc = "sleep"]

\* status COMPLETE with generated_images[0].url
WrOnComplete(w) ==
    [w EXCEPT !.pc = "done", !.result = Success("generatedImageUrl"),
              !.exit = "complete"]

\* (mutant) FAILED reported with the message of the exhausted budget
WrOnFailed_AsTimeout(w) ==
    [w EXCEPT !.pc = "done", !.exit = "failed",
              !.result = Failure("WaitTimedOut")]

\* status FAILED
WrOnFailed(w) ==
    [w EXCEPT !.pc = "done", !.exit = "failed",
              !.result = Failure("GenerationFailed")]

\* the loop body once fetch has settled with answer a
WrOnAnswer(w, a) ==
    CASE a.resp.kind = "error" -> WrCatch(w, "Failed to fetch")
      [] a.resp.kind = "http" /\ ~IsOk(a.resp) -> [w EXCEPT !.pc = "sleep"]
      [] IsOk(a.resp) /\ a.body = "BADJSON" -> WrCatch(w, "Unexpected token")
      [] IsOk(a.resp) /\ a.body = "COMPLETE" -> WrOnComplete(w)
      [] IsOk(a.resp) /\ a.body = "COMPLETE_NOIMAGE" ->
           [w EXCEPT !.pc = "done", !.exit = "noimage",
                     !.result = Failure("CompleteWithoutImageUrl")]
      [] IsOk(a.resp) /\ a.body = "FAILED" -> WrOnFailed(w)
      [] OTHER -> [w EXCEPT !.pc = "sleep"]

\* setTimeout(POLL_INTERVAL) fired
WrOnTimer(w) == WrLoop(w)

----------------------------------------------------------------------------
(* src/unnamed/part_008: analyzeImageWithOpenAI, as its callers see it       *)

\* A text held by the page: the empty string, or the English description
\* the analysis service returned for captured image k
NoText == [kind |-> "empty", img |-> 0]

DescOf(k) == [kind |-> "description", img |-> k]

\* what the chat-completions endpoint can answer: a non-OK status, or 200
\* with a reply holding both sections, a reply without an [English]
\* section, or a body that cannot be read
AnalysisBodies == {"DESCRIPTION", "NO_ENGLISH", "BADJSON"}

AnalysisAnswers ==
    {[resp |-> r, body |-> "NONE"] : r \in Responses \ {Http(200)}}
      \cup {[resp |-> Http(200), body |-> b] : b \in AnalysisBodies}

AnalysisOk(k, english) == [error |-> "", text |-> k, englishText |-> english]

AnalysisError(msg) == [error |-> msg, text |-> 0, englishText |-> NoText]

\* the value returned when the key check fails
MissingKeyResult == AnalysisError("OPENAI_API_KEY not set")

\* (mutant) no key check: the request is sent with `Bearer undefined`
AnalysisSendsRequest_NoCheck(key) == TRUE

\* the key check in front of the request: with no OPENAI_API_KEY the
\* function returns before fetch is called
AnalysisSendsRequest(key) == key

\* the value analyzeImageWithOpenAI resolves with for image k on answer a;
\* it never rejects
AnalyzeImageWithOpenAI(k, a) ==
    IF a.resp = NetworkError THEN AnalysisError("Failed to fetch")
    ELSE IF a.body = "BADJSON" THEN AnalysisError("Unexpected token")
    ELSE IF ~IsOk(a.resp) THEN AnalysisError("OpenAI API call failed")
    ELSE IF a.body = "DESCRIPTION" THEN AnalysisOk(k, DescOf(k))
    ELSE AnalysisOk(k, NoText)

----------------------------------------------------------------------------
(* src/src/utils/leonardoService.ts: processWithImageToImageAndStyle with   *)
(* uploadImage inlined. A pipeline is                                       *)
(*   pc      userBlob userInit userS3 styleFetch styleBlob styleInit        *)
(*           styleS3 submit poll done                                       *)
(*   prompt  the prompt argument     styled  styleImageId is not null       *)
(*           (the request body is built from it; unused once it is sent)    *)
(*   f       the fetchWithRetry call in progress (init-image, generations)  *)
(*   wr      the waitForGenerationResultUrl call in progress                *)
(*   result  the value the function resolved with (pc = "done")             *)

NoFetch == FetchWithRetry(0, 0)

NoPipeline ==
    [pc |-> "none", prompt |-> NoText, styled |-> FALSE, f |-> NoFetch,
     wr |-> WrIdle, result |-> Failure("")]

\* entry: uploadImage(userImageBase64) starts by turning the data URL into
\* a Blob
ProcessWithImageToImageAndStyle(prompt) ==
    [NoPipeline EXCEPT !.pc = "userBlob", !.prompt = prompt]

PwDone(p, res) ==
    [p EXCEPT !.pc = "done", !.result = res, !.f = NoFetch, !.wr = WrIdle]

\* the finalPrompt of the generation request: the prompt followed by the
\* default style prompt, or the default style prompt alone
DefaultStylePrompt == [kind |-> "style", img |-> 0]

FinalPrompt(prompt) ==
    IF prompt.kind = "empty"
    THEN <<DefaultStylePrompt>>
    ELSE <<prompt, DefaultStylePrompt>>

\* the generation request is built and POSTed through fetchWithRetry
PwSubmit(p) ==
    [p EXCEPT !.pc = "submit",
              !.f = FetchWithRetry(DefaultRetries, DefaultDelay)]

\* the body of the generation request in flight
GenPayload(p) ==
    [prompt |-> FinalPrompt(p.prompt), controlnet |-> p.styled]

UploadingUser(p) == p.pc \in {"userBlob", "userInit", "userS3"}

\* uploadImage returned: an upload id (hasId) or null
PwUploadReturned(p, hasId) ==
    IF UploadingUser(p)
    THEN IF hasId THEN [p EXCEPT !.pc = "styleFetch", !.f = NoFetch]
         ELSE PwDone(p, Failure("UserImageUploadFailed"))
    ELSE PwSubmit([p EXCEPT !.styled = hasId])

\* uploadImage: the Blob was obtained (ok) or could not be / is empty
UpOnBlob(p, ok) ==
    IF ok
    THEN [p EXCEPT !.pc = IF UploadingUser(p) THEN "userInit" ELSE "styleInit",
                   !.f = FetchWithRetry(DefaultRetries, DefaultDelay)]
    ELSE PwUploadReturned(p, FALSE)

InitBodies == {"FULL", "INCOMPLETE", "BADJSON"}

\* uploadImage: after a step g of the init-image fetchWithRetry
UpAfterInitStep(p, g, body) ==
    IF g.pc = "returned"
    THEN IF body = "FULL"
         THEN [p EXCEPT !.pc = IF UploadingUser(p) THEN "userS3" ELSE "styleS3",
                        !.f = NoFetch]
         ELSE PwUploadReturned(p, FALSE)
    ELSE IF g.pc = "thrown" THEN PwUploadReturned(p, FALSE)
    ELSE [p EXCEPT !.f = g]

S3Outcomes == {"stored", "rejected", "networkError", "fieldsUnparsable"}

\* (mutant) a transfer that did not succeed makes uploadImage return null
UpOnS3_FailsOnError(p, outcome) == PwUploadReturned(p, outcome = "stored")

\* uploadImage: the XMLHttpRequest to the presigned URL settled (or the
\* fields could not be parsed and the inner catch ran); every outcome
\* returns the upload id
UpOnS3(p, outcome) == PwUploadReturned(p, TRUE)

StyleFetchOutcomes == {"ok", "notOk", "throws"}

\* (mutant) a style image that cannot be fetched fails the run
PwOnStyleFetch_Fatal(p, outcome) ==
    IF outcome = "ok" THEN [p EXCEPT !.pc = "styleBlob"]
    ELSE PwDone(p, Failure("StyleImageFailed"))

\* fetch(styleImagePath) settled
PwOnStyleFetch(p, outcome) ==
    IF outcome = "ok" THEN [p EXCEPT !.pc = "styleBlob"] ELSE PwSubmit(p)

GenBodies == {"GENID", "NOGENID", "BADJSON"}

\* after a step g of the generations fetchWithRetry
PwAfterSubmitStep(p, g, body) ==
    IF g.pc = "returned"
    THEN CASE body = "GENID" ->
                [p EXCEPT !.pc = "poll", !.f = NoFetch, !.styled = FALSE,
                          !.wr = WaitForGenerationResultUrl]
           [] body = "NOGENID" -> PwDone(p, Failure("NoGenerationId"))
           [] OTHER -> PwDone(p, Failure("Unexpected token"))
    ELSE IF g.pc = "thrown" THEN PwDone(p, Failure(g.err))
    ELSE [p EXCEPT !.f = g]

\* (mutant) the waiter's result is not passed on
PwAfterPollStep_LosesResult(p, w) ==
    IF w.pc = "done" THEN PwDone(p, Failure("NoResult"))
    ELSE [p EXCEPT !.wr = w]

\* after a step w of waitForGenerationResultUrl
PwAfterPollStep(p, w) ==
    IF w.pc = "done" THEN PwDone(p, w.result) ELSE [p EXCEPT !.wr = w]

----------------------------------------------------------------------------
(* src/unnamed/part_002: the page component. Captured images are numbered   *)
(* 1, 2, ... in the order of capture; imageUrl = 0 stands for null and      *)
(* processedImageUrl = "" for null. State that is only displayed            *)
(* (gptResponse, chineseText, analysisError, isLoading, the logs and the    *)
(* mask) is left out: no handler reads it.                                  *)

\* bounds of a session: images captured, runs started, both together, and
\* 100 ms timers pending at once
MaxCaptures == 2

MaxRuns == 2

MaxCapturesAndRuns == 3

MaxPendingClicks == 1

Images == 1..MaxCaptures

\* the useState initial values, which are also what every closure created
\* by the first render sees
FirstRender ==
    [imageUrl |-> 0, englishText |-> NoText, isAnalyzing |-> FALSE,
     autoAnalyze |-> TRUE, isProcessing |-> FALSE, processingError |-> "",
     processedImageUrl |-> ""]

PageAtMount(key) ==
    /\ env = [openaiKey |-> key, leonardoKey |-> TRUE]
    /\ ui = FirstRender
    /\ rendered = FirstRender
    /\ loads = {}
    /\ analyses = [k \in Images |-> 0]
    /\ clicks = 0
    /\ runs = {}
    /\ nCaptured = 0
    /\ nRuns = 0

\* processImageFile up to its awaits: the file goes to compressImage and a
\* FileReader whose onload keeps the closure c of the render that made it
ProcessImageFile(c) ==
    /\ nCaptured < MaxCaptures
    /\ nCaptured + nRuns < MaxCapturesAndRuns
    /\ nCaptured' = nCaptured + 1
    /\ loads' = loads \cup {[img |-> nCaptured + 1,
                             autoAnalyze |-> c.autoAnalyze,
                             isAnalyzing |-> c.isAnalyzing]}

\* analyzeImage up to its await, in a closure that saw isAnalyzing = busy
AnalyzeImage(u, busy) ==
    IF busy THEN u ELSE [u EXCEPT !.isAnalyzing = TRUE]

\* analyzeImage after its await
AnalyzeImageSettled(u, res) ==
    IF res.error # ""
    THEN [u EXCEPT !.isAnalyzing = FALSE]
    ELSE [u EXCEPT !.englishText = res.englishText, !.isAnalyzing = FALSE]

\* (mutant) reader.onload starts the analysis without showing the image
ReaderOnLoad_KeepsImage(u, l, compressed) ==
    IF compressed /\ l.autoAnalyze THEN AnalyzeImage(u, l.isAnalyzing) ELSE u

\* reader.onload
ReaderOnLoad(u, l, compressed) ==
    IF compressed
    THEN LET shown == [u EXCEPT !.imageUrl = l.img]
         IN IF l.autoAnalyze THEN AnalyzeImage(shown, l.isAnalyzing)
            ELSE shown
    ELSE [u EXCEPT !.imageUrl = l.img]

\* the disabled attribute of the process button
ProcessDisabled(c) == c.isProcessing \/ c.imageUrl = 0

\* the guard at the head of processImage
ProcessImageRejects(c) == c.imageUrl = 0 \/ c.isProcessing

\* (mutant) processImage forgets setIsProcessing(true)
ProcessImageEntry_NoFlag(u) ==
    [u EXCEPT !.processingError = "", !.processedImageUrl = ""]

\* processImage past the guard: the three setters before the try
ProcessImageEntry(u) ==
    [u EXCEPT !.isProcessing = TRUE, !.processingError = "",
              !.processedImageUrl = ""]

\* (mutant) processImage analyses the image on every run
NewRun_AlwaysAnalyses(id, c) ==
    [id |-> id, img |-> c.imageUrl, text |-> c.englishText,
     desc |-> c.englishText, ignored |-> FALSE, p |-> NoPipeline]

\* the run processImage starts in closure c: it analyses first when the
\* closure's englishText is empty, otherwise it goes straight to generation
\* with the closure's englishText as prompt
NewRun(id, c) ==
    [id |-> id, img |-> c.imageUrl, text |-> c.englishText,
     desc |-> c.englishText, ignored |-> FALSE,
     p |-> IF c.englishText.kind = "empty" THEN NoPipeline
           ELSE ProcessWithImageToImageAndStyle(c.englishText)]

Analysing(r) == r.p.pc = "none"

\* (mutant) a failed generation leaves no message
ProcessImageExit_Silent(u, res) ==
    IF res.success
    THEN [u EXCEPT !.processedImageUrl = res.imageUrl, !.isProcessing = FALSE]
    ELSE [u EXCEPT !.isProcessing = FALSE]

\* (mutant) processImage without its finally block
ProcessImageExit_NoFinally(u, res) ==
    IF res.success
    THEN [u EXCEPT !.processedImageUrl = res.imageUrl]
    ELSE [u EXCEPT !.processingError =
                       IF res.error # "" THEN res.error
                       ELSE "ImageProcessingFailed"]

\* processImage after processWithImageToImageAndStyle resolved, finally
\* included
ProcessImageExit(u, res) ==
    IF res.success
    THEN [u EXCEPT !.processedImageUrl = res.imageUrl, !.isProcessing = FALSE]
    ELSE [u EXCEPT !.processingError =
                       IF res.error # "" THEN res.error
                       ELSE "ImageProcessingFailed",
                   !.isProcessing = FALSE]

----------------------------------------------------------------------------
(* What an observer of a polling waiter has seen so far:                    *)
(*   fetches   status fetches started    requests  HTTP requests sent       *)
(*   answered  status fetches settled    pendings  of them, PENDING         *)
(*   errors    of them, failed (thrown, non-OK, unreadable body)            *)
(*   slept     a poll sleep was taken since the last settled fetch          *)
(*   lastBody  the outcome of the last settled fetch                        *)

NoHist ==
    [fetches |-> 0, requests |-> 0, answered |-> 0, pendings |-> 0,
     errors |-> 0, slept |-> TRUE, lastBody |-> "NONE"]

FirstFetch == [NoHist EXCEPT !.fetches = 1, !.requests = 1]

\* a status fetch settled with `outcome` ("ERROR" or a body)
HistSettle(h, outcome) ==
    [h EXCEPT !.answered = h.answered + 1,
              !.pendings = h.pendings + (IF outcome = "PENDING" THEN 1 ELSE 0),
              !.errors = h.errors + (IF outcome = "ERROR" THEN 1 ELSE 0),
              !.slept = FALSE,
              !.lastBody = outcome]

\* newFetch: a status fetch was started; newRequest: a request was sent
HistSend(h, newFetch, newRequest) ==
    [h EXCEPT !.fetches = h.fetches + (IF newFetch THEN 1 ELSE 0),
              !.requests = h.requests + (IF newRequest THEN 1 ELSE 0)]

\* how a POST /generations answered with resp and body ends, seen by the client
SubmitOutcome(resp, body) == IF IsOk(resp) THEN body ELSE "failed"

\* how a status fetch answered with a ends, seen from outside
AnswerOutcome(a) ==
    IF ~IsOk(a.resp) \/ a.body = "BADJSON" THEN "ERROR" ELSE a.body

----------------------------------------------------------------------------
(* The studies that a specification does not use stay idle *)

NoRunHist ==
    [descAsked |-> FALSE, analysis |-> {}, providerAsked |-> FALSE,
     retried |-> FALSE, lastTransfer |-> "none", styleStep |-> "none",
     statusFetches |-> 0, firstPoll |-> "NONE", submits |-> <<>>]

DimIdle == [pc |-> "idle"]

ElemIdle == [pc |-> "idle"]

TxtIdle == [pc |-> "idle"]

AnaIdle == [pc |-> "idle"]

MultiIdle == [pc |-> "idle"]

SideIdle ==
    /\ runH = NoRunHist
    /\ dim = DimIdle
    /\ elem = ElemIdle
    /\ txt = TxtIdle /\ ana = AnaIdle
    /\ multi = MultiIdle

----------------------------------------------------------------------------
(* SpecRetry: one call of fetchWithRetry against an arbitrary server *)

InitRetry ==
    /\ \E n \in 1..MaxRetries : fr = FetchWithRetry(n, DefaultDelay)
    /\ frHist = <<>>
    /\ frWaits = <<>>
    /\ wc = WcIdle
    /\ wr = WrIdle
    /\ wcH = NoHist
    /\ wrH = NoHist
    /\ PageAtMount(TRUE)
    /\ SideIdle

\* the server answers attempt i (or the transport fails)
RetryRespond ==
    /\ fr.pc = "fetch"
    /\ \E resp \in Responses :
         /\ fr' = FwrOnResponse(fr, resp)
         /\ frHist' = Append(frHist, resp)
         /\ frWaits' = IF FwrSleeping(fr')
                       THEN Append(frWaits, FwrWait(fr')) ELSE frWaits
    /\ UNCHANGED <<pollVars, pageVars, sideVars>>

\* the pending setTimeout fires
RetryTimer ==
    /\ FwrSleeping(fr)
    /\ fr' = FwrOnTimer(fr)
    /\ UNCHANGED <<frHist, frWaits, pollVars, pageVars, sideVars>>

NextRetry == RetryRespond \/ RetryTimer

SpecRetry == InitRetry /\ [][NextRetry]_vars

----------------------------------------------------------------------------
(* SpecPoll: one call of either polling waiter against an arbitrary         *)
(* provider                                                                 *)

InitPoll ==
    /\ fr = FetchWithRetry(0, 0)
    /\ frHist = <<>>
    /\ frWaits = <<>>
    /\ \/ /\ \E n \in 1..MaxPollsOption :
                wc = WaitForGenerationCompletion(n, DefaultInitialDelay,
                                                 DefaultMaxDelay)
          /\ wcH = FirstFetch
          /\ wr = WrIdle
          /\ wrH = NoHist
       \/ /\ wc = WcIdle
          /\ wcH = NoHist
          /\ wr = WaitForGenerationResultUrl
          /\ wrH = FirstFetch
    /\ PageAtMount(TRUE)
    /\ SideIdle

\* a request is in flight in waitForGenerationCompletion
WcRequesting(w) == w.pc = "fetch" /\ w.f.pc = "fetch"

\* the provider answers the status request of waitForGenerationCompletion
CompletionAnswer ==
    /\ WcRequesting(wc)
    /\ \E a \in PollAnswers :
         LET g == FwrOnResponse(wc.f, a.resp)
             h == IF g.pc = "returned" THEN HistSettle(wcH, AnswerOutcome(a))
                  ELSE IF g.pc = "thrown" THEN HistSettle(wcH, "ERROR")
                  ELSE wcH
         IN /\ wc' = WcOnAnswer(wc, a)
            /\ wcH' = HistSend(h, WcRequesting(wc'), WcRequesting(wc'))
    /\ UNCHANGED <<wr, wrH, retryVars, pageVars, sideVars>>

\* a retry timer of its fetchWithRetry fires
CompletionRetryTimer ==
    /\ wc.pc = "fetch" /\ FwrSleeping(wc.f)
    /\ wc' = WcOnRetryTimer(wc)
    /\ LET g == FwrOnTimer(wc.f)
           h == IF g.pc = "thrown" THEN HistSettle(wcH, "ERROR") ELSE wcH
       IN wcH' = HistSend(h, WcRequesting(wc') /\ wc'.f.i = 0,
                          WcRequesting(wc'))
    /\ UNCHANGED <<wr, wrH, retryVars, pageVars, sideVars>>

\* its setTimeout(currentDelay) fires
CompletionTimer ==
    /\ wc.pc = "sleep"
    /\ wc' = WcOnTimer(wc)
    /\ wcH' = HistSend([wcH EXCEPT !.slept = TRUE],
                       WcRequesting(wc'), WcRequesting(wc'))
    /\ UNCHANGED <<wr, wrH, retryVars, pageVars, sideVars>>

\* the provider answers the status request of waitForGenerationResultUrl
ResultUrlAnswer ==
    /\ wr.pc = "fetch"
    /\ \E a \in PollAnswers :
         /\ wr' = WrOnAnswer(wr, a)
         /\ wrH' = HistSend(HistSettle(wrH, AnswerOutcome(a)),
                            wr'.pc = "fetch", wr'.pc = "fetch")
    /\ UNCHANGED <<wc, wcH, retryVars, pageVars, sideVars>>

\* its setTimeout(POLL_INTERVAL) fires
ResultUrlTimer ==
    /\ wr.pc = "sleep"
    /\ wr' = WrOnTimer(wr)
    /\ wrH' = HistSend([wrH EXCEPT !.slept = TRUE],
                       wr'.pc = "fetch", wr'.pc = "fetch")
    /\ UNCHANGED <<wc, wcH, retryVars, pageVars, sideVars>>

NextPoll ==
    \/ CompletionAnswer
    \/ CompletionRetryTimer
    \/ CompletionTimer
    \/ ResultUrlAnswer
    \/ ResultUrlTimer

SpecPoll == InitPoll /\ [][NextPoll]_vars

----------------------------------------------------------------------------
(* A run is  id  its number   img, text  imageUrl and englishText of the    *)
(* closure it runs in   desc  the description in effect for it   p  its     *)
(* pipeline   ignored  history: a press of the process button was ignored   *)
(* while it was in progress.                                                *)
(*                                                                          *)
(* Spec: the page from mount on, with its captures, analyses and runs; the  *)
(* user, the timers and the two services act in any order                   *)

studyVars == <<fr, frHist, frWaits, wc, wcH, wr, wrH, runH, dim, elem, txt,
               ana, multi>>

Init ==
    /\ fr = NoFetch
    /\ frHist = <<>>
    /\ frWaits = <<>>
    /\ wc = WcIdle
    /\ wcH = NoHist
    /\ wr = WrIdle
    /\ wrH = NoHist
    /\ \E key \in BOOLEAN : PageAtMount(key)
    /\ SideIdle

\* what analyzeImageWithOpenAI can resolve with for image k
AnalysisResults(k) ==
    IF AnalysisSendsRequest(env.openaiKey)
    THEN {AnalyzeImageWithOpenAI(k, a) : a \in AnalysisAnswers}
    ELSE {MissingKeyResult}

\* handleImageUpload (file input) and the onDrop handler: processImageFile
\* of the current render
HandleImageUpload ==
    /\ ProcessImageFile(rendered)
    /\ UNCHANGED <<env, ui, rendered, analyses, clicks, runs, nRuns,
                   studyVars>>

\* the window paste listener, registered once: processImageFile of the
\* first render
HandlePaste ==
    /\ ProcessImageFile(FirstRender)
    /\ UNCHANGED <<env, ui, rendered, analyses, clicks, runs, nRuns,
                   studyVars>>

\* reader.onload, after compressImage resolved or (compressed = FALSE)
\* rejected
FileReaderLoaded ==
    \E l \in loads, compressed \in BOOLEAN :
      /\ loads' = loads \ {l}
      /\ ui' = ReaderOnLoad(ui, l, compressed)
      /\ analyses' = IF compressed /\ l.autoAnalyze /\ ~l.isAnalyzing
                     THEN [analyses EXCEPT ![l.img] = @ + 1]
                     ELSE analyses
      /\ UNCHANGED <<env, rendered, clicks, runs, nCaptured, nRuns,
                     studyVars>>

\* the file could not be read: no state changes
FileReaderFailed ==
    \E l \in loads :
      /\ loads' = loads \ {l}
      /\ UNCHANGED <<env, ui, rendered, analyses, clicks, runs, nCaptured,
                     nRuns, studyVars>>

\* React commits a render for updates made outside an event handler
Render ==
    /\ rendered # ui
    /\ rendered' = ui
    /\ UNCHANGED <<env, ui, loads, analyses, clicks, runs, nCaptured, nRuns,
                   studyVars>>

\* the analyse button (disabled while isAnalyzing or without an image)
AnalyzeClick ==
    /\ rendered.imageUrl # 0
    /\ ~rendered.isAnalyzing
    /\ ui' = AnalyzeImage(ui, rendered.isAnalyzing)
    /\ rendered' = ui'
    /\ analyses' = [analyses EXCEPT ![rendered.imageUrl] = @ + 1]
    /\ UNCHANGED <<env, loads, clicks, runs, nCaptured, nRuns,
                   studyVars>>

\* an analyzeImage call resumes; on success it arms the 100 ms timer
AnalysisSettled ==
    \E k \in Images :
      /\ analyses[k] > 0
      /\ \E res \in AnalysisResults(k) :
           /\ res.error = "" => clicks < MaxPendingClicks
           /\ ui' = AnalyzeImageSettled(ui, res)
           /\ clicks' = IF res.error = "" THEN clicks + 1 ELSE clicks
      /\ analyses' = [analyses EXCEPT ![k] = @ - 1]
      /\ UNCHANGED <<env, rendered, loads, runs, nCaptured, nRuns,
                     studyVars>>

\* the auto-analyse checkbox
ToggleAutoAnalyze ==
    /\ ui' = [ui EXCEPT !.autoAnalyze = ~ui.autoAnalyze]
    /\ rendered' = ui'
    /\ UNCHANGED <<env, loads, analyses, clicks, runs, nCaptured, nRuns,
                   studyVars>>

\* the English textarea: the user empties the field
EditEnglishText ==
    /\ ui.englishText # NoText
    /\ ui' = [ui EXCEPT !.englishText = NoText]
    /\ rendered' = ui'
    /\ UNCHANGED <<env, loads, analyses, clicks, runs, nCaptured, nRuns,
                   studyVars>>

\* a press of the process button: nothing when it is disabled or the guard
\* of processImage returns, otherwise processImage of the current render
\* runs up to its first await and React commits
PressProcessButton ==
    IF ProcessDisabled(rendered) \/ ProcessImageRejects(rendered)
    THEN /\ runs' = {[r EXCEPT !.ignored = TRUE] : r \in runs}
         /\ UNCHANGED <<ui, rendered, nRuns>>
    ELSE /\ nRuns < MaxRuns
         /\ nCaptured + nRuns < MaxCapturesAndRuns
         /\ ui' = ProcessImageEntry(ui)
         /\ rendered' = ui'
         /\ runs' = runs \cup {NewRun(nRuns + 1, rendered)}
         /\ nRuns' = nRuns + 1

\* the user clicks the process button
ProcessClick ==
    /\ PressProcessButton
    /\ UNCHANGED <<env, loads, analyses, clicks, nCaptured, studyVars>>

\* the 100 ms timer armed by analyzeImage clicks the process button
ClickTimer ==
    /\ clicks > 0
    /\ clicks' = clicks - 1
    /\ PressProcessButton
    /\ UNCHANGED <<env, loads, analyses, nCaptured, studyVars>>

\* run r goes on with pipeline state q, or leaves processImage when the
\* pipeline resolved
Advance(r, q) ==
    IF q.pc = "done"
    THEN /\ ui' = ProcessImageExit(ui, q.result)
         /\ runs' = runs \ {r}
    ELSE /\ ui' = ui
         /\ runs' = (runs \ {r}) \cup {[r EXCEPT !.p = q]}

\* processImage resumes after its own analyzeImageWithOpenAI call
RunAnalysisSettled ==
    \E r \in runs :
      /\ Analysing(r)
      /\ \E res \in AnalysisResults(r.img) :
           IF res.error # ""
           THEN /\ ui' = [ui EXCEPT !.processingError = res.error,
                                    !.isProcessing = FALSE]
                /\ runs' = runs \ {r}
           ELSE /\ ui' = [ui EXCEPT !.englishText = res.englishText]
                /\ runs' = (runs \ {r}) \cup
                     {[r EXCEPT !.desc = res.englishText,
                                !.p = ProcessWithImageToImageAndStyle(r.text)]}
      /\ UNCHANGED <<env, rendered, loads, analyses, clicks, nCaptured, nRuns,
                     studyVars>>

\* uploadImage: the data URL became a Blob, or did not
RunBlob ==
    \E r \in runs :
      /\ r.p.pc \in {"userBlob", "styleBlob"}
      /\ \E ok \in BOOLEAN : Advance(r, UpOnBlob(r.p, ok))
      /\ UNCHANGED <<env, rendered, loads, analyses, clicks, nCaptured, nRuns,
                     studyVars>>

\* uploadImage: the init-image request is answered
RunInitAnswer ==
    \E r \in runs :
      /\ r.p.pc \in {"userInit", "styleInit"}
      /\ r.p.f.pc = "fetch"
      /\ \E resp \in Responses, body \in InitBodies :
           Advance(r, UpAfterInitStep(r.p, FwrOnResponse(r.p.f, resp), body))
      /\ UNCHANGED <<env, rendered, loads, analyses, clicks, nCaptured, nRuns,
                     studyVars>>

\* uploadImage: the retry delay of the init-image request is over
RunInitTimer ==
    \E r \in runs :
      /\ r.p.pc \in {"userInit", "styleInit"}
      /\ FwrSleeping(r.p.f)
      /\ Advance(r, UpAfterInitStep(r.p, FwrOnTimer(r.p.f), "NONE"))
      /\ UNCHANGED <<env, rendered, loads, analyses, clicks, nCaptured, nRuns,
                     studyVars>>

\* uploadImage: the upload to the presigned URL settled
RunS3 ==
    \E r \in runs :
      /\ r.p.pc \in {"userS3", "styleS3"}
      /\ \E outcome \in S3Outcomes : Advance(r, UpOnS3(r.p, outcome))
      /\ UNCHANGED <<env, rendered, loads, analyses, clicks, nCaptured, nRuns,
                     studyVars>>

\* the style reference image was fetched, or was not
RunStyleFetch ==
    \E r \in runs :
      /\ r.p.pc = "styleFetch"
      /\ \E outcome \in StyleFetchOutcomes :
           Advance(r, PwOnStyleFetch(r.p, outcome))
      /\ UNCHANGED <<env, rendered, loads, analyses, clicks, nCaptured, nRuns,
                     studyVars>>

\* the generation request is answered
RunSubmitAnswer ==
    \E r \in runs :
      /\ r.p.pc = "submit"
      /\ r.p.f.pc = "fetch"
      /\ \E resp \in Responses, body \in GenBodies :
           Advance(r, PwAfterSubmitStep(r.p, FwrOnResponse(r.p.f, resp), body))
      /\ UNCHANGED <<env, rendered, loads, analyses, clicks, nCaptured, nRuns,
                     studyVars>>

\* the retry delay of the generation request is over
RunSubmitTimer ==
    \E r \in runs :
      /\ r.p.pc = "submit"
      /\ FwrSleeping(r.p.f)
      /\ Advance(r, PwAfterSubmitStep(r.p, FwrOnTimer(r.p.f), "NONE"))
      /\ UNCHANGED <<env, rendered, loads, analyses, clicks, nCaptured, nRuns,
                     studyVars>>

\* a status request of the run's waitForGenerationResultUrl is answered
RunPollAnswer ==
    \E r \in runs :
      /\ r.p.pc = "poll"
      /\ r.p.wr.pc = "fetch"
      /\ \E a \in PollAnswers :
           Advance(r, PwAfterPollStep(r.p, WrOnAnswer(r.p.wr, a)))
      /\ UNCHANGED <<env, rendered, loads, analyses, clicks, nCaptured, nRuns,
                     studyVars>>

\* the poll interval of the run's waitForGenerationResultUrl is over
RunPollTimer ==
    \E r \in runs :
      /\ r.p.pc = "poll"
      /\ r.p.wr.pc = "sleep"
      /\ Advance(r, PwAfterPollStep(r.p, WrOnTimer(r.p.wr)))
      /\ UNCHANGED <<env, rendered, loads, analyses, clicks, nCaptured, nRuns,
                     studyVars>>

Next ==
    \/ HandleImageUpload
    \/ HandlePaste
    \/ FileReaderLoaded
    \/ FileReaderFailed
    \/ Render
    \/ AnalyzeClick
    \/ AnalysisSettled
    \/ ToggleAutoAnalyze
    \/ EditEnglishText
    \/ ProcessClick
    \/ ClickTimer
    \/ RunAnalysisSettled
    \/ RunBlob
    \/ RunInitAnswer
    \/ RunInitTimer
    \/ RunS3
    \/ RunStyleFetch
    \/ RunSubmitAnswer
    \/ RunSubmitTimer
    \/ RunPollAnswer
    \/ RunPollTimer

Spec == Init /\ [][Next]_vars

----------------------------------------------------------------------------
(* SpecRun: one run of processImage from the click on, on a page that shows *)
(* image 1 with or without a cached description, with either API key set or *)
(* not, against arbitrary services. runH records what an observer has seen: *)
(*   descAsked      a request went to the description service               *)
(*   analysis       the result the run's analyzeImageWithOpenAI call gave   *)
(*   providerAsked  a request went to the generation provider               *)
(*   retried        a fetchWithRetry request was sent again                 *)
(*   lastTransfer   how the last upload to a presigned URL ended            *)
(*   styleStep      how the style-reference step ended                      *)
(*   statusFetches  status requests sent    firstPoll  answer to the first  *)
(*   submits        how each POST /generations that was answered ended       *)

\* a provider that is sent `Bearer undefined` refuses the request
ProviderResponses ==
    IF env.leonardoKey THEN Responses
    ELSE {Http(401), Http(403), NetworkError}

ProviderPollAnswers == {a \in PollAnswers : a.resp \in ProviderResponses}

\* a request to the provider is in flight in pipeline state q
InFlight(q) ==
    \/ q.pc \in {"userInit", "styleInit", "submit"} /\ q.f.pc = "fetch"
    \/ q.pc = "poll" /\ q.wr.pc = "fetch"

\* the history after a step that left the pipeline in state q; resend says
\* that the step was a retry timer of fetchWithRetry
Seen(h, q, resend) ==
    [h EXCEPT !.providerAsked = @ \/ InFlight(q),
              !.retried = @ \/ (resend /\ InFlight(q)),
              !.statusFetches =
                  IF q.pc = "poll" /\ q.wr.pc = "fetch" THEN @ + 1 ELSE @]

TheRun == CHOOSE r \in runs : TRUE

InitRun ==
    /\ fr = NoFetch
    /\ frHist = <<>>
    /\ frWaits = <<>>
    /\ wc = WcIdle
    /\ wcH = NoHist
    /\ wr = WrIdle
    /\ wrH = NoHist
    /\ dim = DimIdle
    /\ elem = ElemIdle
    /\ txt = TxtIdle /\ ana = AnaIdle
    /\ multi = MultiIdle
    /\ \E openai \in BOOLEAN, leonardo \in BOOLEAN :
         env = [openaiKey |-> openai, leonardoKey |-> leonardo]
    /\ \E cached \in BOOLEAN :
         LET shown == [FirstRender EXCEPT
                         !.imageUrl = 1,
                         !.englishText = IF cached THEN DescOf(1) ELSE NoText]
         IN /\ ui = ProcessImageEntry(shown)
            /\ runs = {NewRun(1, shown)}
    /\ rendered = ui
    /\ loads = {}
    /\ analyses = [k \in Images |-> 0]
    /\ clicks = 0
    /\ nCaptured = 1
    /\ nRuns = 1
    /\ runH = [NoRunHist EXCEPT
                 !.descAsked = Analysing(TheRun)
                               /\ AnalysisSendsRequest(env.openaiKey)]

soloFrame == <<fr, frHist, frWaits, wc, wcH, wr, wrH, dim, elem, txt, ana,
               multi, env,
               rendered, loads, analyses, clicks, nCaptured, nRuns>>

\* the run's analyzeImageWithOpenAI call resolves
SoloAnalysisSettled ==
    /\ runs # {}
    /\ Analysing(TheRun)
    /\ \E res \in AnalysisResults(TheRun.img) :
         /\ IF res.error # ""
            THEN /\ ui' = [ui EXCEPT !.processingError = res.error,
                                     !.isProcessing = FALSE]
                 /\ runs' = {}
            ELSE /\ ui' = [ui EXCEPT !.englishText = res.englishText]
                 /\ runs' = {[TheRun EXCEPT
                       !.desc = res.englishText,
                       !.p = ProcessWithImageToImageAndStyle(TheRun.text)]}
         /\ runH' = [runH EXCEPT !.analysis = {res}]
    /\ UNCHANGED soloFrame

SoloBlob ==
    /\ runs # {}
    /\ TheRun.p.pc \in {"userBlob", "styleBlob"}
    /\ \E ok \in BOOLEAN :
         LET q == UpOnBlob(TheRun.p, ok)
         IN /\ Advance(TheRun, q)
            /\ runH' = [Seen(runH, q, FALSE) EXCEPT
                          !.styleStep = IF q.pc = "submit" THEN "uploadNull"
                                        ELSE @]
    /\ UNCHANGED soloFrame

SoloInitAnswer ==
    /\ runs # {}
    /\ TheRun.p.pc \in {"userInit", "styleInit"}
    /\ TheRun.p.f.pc = "fetch"
    /\ \E resp \in ProviderResponses, body \in InitBodies :
         LET q == UpAfterInitStep(TheRun.p, FwrOnResponse(TheRun.p.f, resp),
                                  body)
         IN /\ Advance(TheRun, q)
            /\ runH' = [Seen(runH, q, FALSE) EXCEPT
                          !.styleStep = IF q.pc = "submit" THEN "uploadNull"
                                        ELSE @]
    /\ UNCHANGED soloFrame

SoloInitTimer ==
    /\ runs # {}
    /\ TheRun.p.pc \in {"userInit", "styleInit"}
    /\ FwrSleeping(TheRun.p.f)
    /\ LET q == UpAfterInitStep(TheRun.p, FwrOnTimer(TheRun.p.f), "NONE")
       IN /\ Advance(TheRun, q)
          /\ runH' = [Seen(runH, q, TRUE) EXCEPT
                        !.styleStep = IF q.pc = "submit" THEN "uploadNull"
                                      ELSE @]
    /\ UNCHANGED soloFrame

SoloS3 ==
    /\ runs # {}
    /\ TheRun.p.pc \in {"userS3", "styleS3"}
    /\ \E outcome \in S3Outcomes :
         LET q == UpOnS3(TheRun.p, outcome)
         IN /\ Advance(TheRun, q)
            /\ runH' = [Seen(runH, q, FALSE) EXCEPT
                          !.lastTransfer = outcome,
                          !.styleStep = IF q.pc = "submit"
                                        THEN IF q.styled THEN "uploaded"
                                             ELSE "uploadNull"
                                        ELSE @]
    /\ UNCHANGED soloFrame

SoloStyleFetch ==
    /\ runs # {}
    /\ TheRun.p.pc = "styleFetch"
    /\ \E outcome \in StyleFetchOutcomes :
         LET q == PwOnStyleFetch(TheRun.p, outcome)
         IN /\ Advance(TheRun, q)
            /\ runH' = [Seen(runH, q, FALSE) EXCEPT
                          !.styleStep = IF outcome = "ok" THEN @
                                        ELSE "fetchFailed"]
    /\ UNCHANGED soloFrame

SoloSubmitAnswer ==
    /\ runs # {}
    /\ TheRun.p.pc = "submit"
    /\ TheRun.p.f.pc = "fetch"
    /\ \E resp \in ProviderResponses, body \in GenBodies :
         LET q == PwAfterSubmitStep(TheRun.p, FwrOnResponse(TheRun.p.f, resp),
                                    body)
         IN /\ Advance(TheRun, q)
            /\ runH' = [Seen(runH, q, FALSE) EXCEPT
                          !.submits = Append(@, SubmitOutcome(resp, body))]
    /\ UNCHANGED soloFrame

SoloSubmitTimer ==
    /\ runs # {}
    /\ TheRun.p.pc = "submit"
    /\ FwrSleeping(TheRun.p.f)
    /\ LET q == PwAfterSubmitStep(TheRun.p, FwrOnTimer(TheRun.p.f), "NONE")
       IN /\ Advance(TheRun, q)
          /\ runH' = Seen(runH, q, TRUE)
    /\ UNCHANGED soloFrame

SoloPollAnswer ==
    /\ runs # {}
    /\ TheRun.p.pc = "poll"
    /\ TheRun.p.wr.pc = "fetch"
    /\ \E a \in ProviderPollAnswers :
         LET q == PwAfterPollStep(TheRun.p, WrOnAnswer(TheRun.p.wr, a))
         IN /\ Advance(TheRun, q)
            /\ runH' = [Seen(runH, q, FALSE) EXCEPT
                          !.firstPoll = IF runH.statusFetches = 1
                                        THEN AnswerOutcome(a) ELSE @]
    /\ UNCHANGED soloFrame

SoloPollTimer ==
    /\ runs # {}
    /\ TheRun.p.pc = "poll"
    /\ TheRun.p.wr.pc = "sleep"
    /\ LET q == PwAfterPollStep(TheRun.p, WrOnTimer(TheRun.p.wr))
       IN /\ Advance(TheRun, q)
          /\ runH' = Seen(runH, q, FALSE)
    /\ UNCHANGED soloFrame

NextRun ==
    \/ SoloAnalysisSettled
    \/ SoloBlob
    \/ SoloInitAnswer
    \/ SoloInitTimer
    \/ SoloS3
    \/ SoloStyleFetch
    \/ SoloSubmitAnswer
    \/ SoloSubmitTimer
    \/ SoloPollAnswer
    \/ SoloPollTimer

SpecRun == InitRun /\ [][NextRun]_vars

----------------------------------------------------------------------------
(* Claims about fetchWithRetry (checked under SpecRetry) *)

IsAuthStatus(resp) == resp.kind = "http" /\ resp.status \in {401, 403}

IsServerFailure(resp) == resp = NetworkError \/ resp = Http(500)

\* C1: an attempt answered with 401 or 403 ends the call at once: the call
\* is rejected, that attempt's request is the last one sent (exactly one
\* request when it is the first attempt) and no wait follows it.
C1_AuthFailsImmediately ==
    \A k \in 1..Len(frHist) :
        IsAuthStatus(frHist[k]) =>
            /\ fr.pc = "thrown"
            /\ fr.sent = k
            /\ Len(frWaits) = k - 1

\* C2: never more than `retries` requests are sent, and a call whose every
\* attempt was answered with HTTP 500 or failed in transport is rejected
\* after exactly `retries` requests.
C2_ExhaustsRetries ==
    /\ fr.sent <= fr.retries
    /\ (\A k \in 1..Len(frHist) : IsServerFailure(frHist[k])) =>
          /\ fr.pc # "returned"
          /\ fr.pc = "thrown" <=> Len(frHist) = fr.retries
          /\ fr.pc = "thrown" => fr.sent = fr.retries

\* three attempts, all answered 500, and the call rejected
C2_Witness ==
    /\ fr.retries = DefaultRetries
    /\ fr.pc = "thrown"
    /\ frHist = <<Http(500), Http(500), Http(500)>>

----------------------------------------------------------------------------
(* Claims about the polling waiters (checked under SpecPoll) *)

\* C5: in both waiters a failed status fetch (thrown or non-OK) does not end
\* the loop - a finished waiter finished on a terminal status or on the
\* exhausted poll budget - and a sleep separates it from the next fetch.
C5_TransientErrorKeepsPolling ==
    /\ wr.pc = "done" => wr.exit \in {"complete", "noimage", "failed", "timeout"}
    /\ wr.pc = "fetch" => wrH.slept
    /\ wc.pc = "done" => wc.exit \in {"complete", "noimage", "failed", "timeout"}
    /\ (wc.pc = "fetch" /\ wc.f.i = 0) => wcH.slept

\* C6: k-1 PENDING answers followed by COMPLETE with an image, every status
\* fetch succeeding: the waiter has returned success, having started exactly
\* k <= maxPolls status fetches (and sent exactly k requests).
C6_CompleteAtPollK ==
    /\ (wcH.lastBody = "COMPLETE" /\ wcH.pendings = wcH.answered - 1
          /\ wcH.requests = wcH.answered) =>
          /\ wc.pc = "done" /\ wc.result = "imageId"
          /\ wcH.fetches = wcH.answered
          /\ wcH.fetches <= wc.maxPolls
    /\ (wrH.lastBody = "COMPLETE" /\ wrH.pendings = wrH.answered - 1) =>
          /\ wr.pc = "done" /\ wr.result = Success("generatedImageUrl")
          /\ wrH.fetches = wrH.answered
          /\ wrH.fetches <= MAX_POLLS

\* [PENDING, PENDING, COMPLETE] with maxPolls = 5: success after 3 fetches
C6_Witness ==
    /\ wc.maxPolls = 5 /\ wc.pc = "done" /\ wc.result = "imageId"
    /\ wcH.pendings = 2 /\ wcH.fetches = 3 /\ wcH.requests = 3

\* C7: every status fetch succeeding with PENDING, the waiter ends exactly
\* when maxPolls fetches have been answered (and the sleep after the last
\* one is over), with the timeout outcome; it never starts more than
\* maxPolls fetches.
C7_AllPendingTimesOut ==
    /\ wcH.fetches <= wc.maxPolls
    /\ wrH.fetches <= MAX_POLLS
    /\ (wc.pc # "idle" /\ wcH.pendings = wcH.answered
          /\ wcH.requests = wcH.fetches) =>
          /\ wc.pc = "done" <=> (wcH.answered = wc.maxPolls /\ wcH.slept)
          /\ wc.pc = "done" =>
                wc.exit = "timeout" /\ wc.result = "null"
                /\ wcH.fetches = wc.maxPolls
    /\ (wr.pc # "idle" /\ wrH.pendings = wrH.answered) =>
          /\ wr.pc = "done" <=> (wrH.answered = MAX_POLLS /\ wrH.slept)
          /\ wr.pc = "done" =>
                wr.exit = "timeout" /\ wr.result = Failure("WaitTimedOut")
                /\ wrH.fetches = MAX_POLLS

\* all PENDING with maxPolls = 3: timeout after exactly 3 fetches
C7_Witness ==
    /\ wc.maxPolls = 3 /\ wc.pc = "done" /\ wc.exit = "timeout"
    /\ wcH.pendings = 3 /\ wcH.fetches = 3 /\ wcH.requests = 3

\* what each waiter returns when its poll budget is exhausted
WcTimeoutResult == WcLoop([WcIdle EXCEPT !.pc = "sleep"]).result

WrTimeoutResult ==
    WrLoop([WrIdle EXCEPT !.pc = "sleep", !.pollCount = MAX_POLLS]).result

----------------------------------------------------------------------------
(* Claims about the page (checked under Spec) *)

RunIds(rs) == {r.id : r \in rs}

\* the runs rs without their history field
Progress(rs) == {[r EXCEPT !.ignored = FALSE] : r \in rs}

\* a press of the process button is ignored in this step
PressIgnored == \E r \in runs' : r.ignored /\ r.id \in RunIds(runs)
                                 /\ \E q \in runs : q.id = r.id /\ ~q.ignored

\* C3: at most one run of processImage is in progress at any time; while
\* one is in progress no other run starts, and a press of the process
\* button (by the user or by the 100 ms timer) that arrives then changes
\* nothing: the run goes on as it was, no state is set and no click is
\* left pending for later.
C3_AtMostOneRun ==
    /\ [](Cardinality(runs) <= 1)
    /\ [][runs # {} => RunIds(runs') \subseteq RunIds(runs)]_vars
    /\ [][PressIgnored => /\ Progress(runs') = Progress(runs)
                          /\ ui' = ui
                          /\ nRuns' = nRuns
                          /\ clicks' <= clicks]_vars

\* a run is in progress and a press of the button was ignored meanwhile
C3_Witness ==
    \E r \in runs : r.ignored /\ ui.isProcessing /\ r.p.pc = "poll"

\* C4: once processImage hands over to processWithImageToImageAndStyle,
\* the prompt it passed is the English text of the description in effect
\* for the run, whether that description was in the state before the run
\* or was returned by the run's own analysis.
C4_PromptIsDescription ==
    \A r \in runs : ~Analysing(r) => r.p.prompt = r.desc

ResultStored == ui.processedImageUrl # "" /\ ui.processingError = ""

ErrorStored == ui.processedImageUrl = "" /\ ui.processingError # ""

\* run r leaves processImage in this step
RunEnds(r) == r.id \notin RunIds(runs')

\* C9: when a started run has ended, the page holds exactly one outcome:
\* a result image and no error, or a non-empty error and no result image;
\* and a run that ends anywhere before the polling of the generation
\* (analysis, upload of the user image, submission) ends with the error.
C9_OneTerminalOutcome ==
    /\ []((nRuns > 0 /\ runs = {}) => (ResultStored \/ ErrorStored))
    /\ [][\A r \in runs :
            RunEnds(r) => IF r.p.pc = "poll"
                          THEN ResultStored' \/ ErrorStored'
                          ELSE ErrorStored']_vars

\* a run has ended with a result image stored
C9_Witness == nRuns > 0 /\ runs = {} /\ ResultStored /\ ~ui.isProcessing

\* C10: a run that generates for image k never has as its prompt a
\* description the analysis returned for another captured image.
C10_NoDescriptionAcrossImages ==
    \A r \in runs :
      (~Analysing(r) /\ r.p.prompt.kind = "description")
        => r.p.prompt.img = r.img

----------------------------------------------------------------------------
(* Claims about one run (checked under SpecRun) *)

\* the run under study has ended
RunOver == runs = {}

\* the run under study got as far as processWithImageToImageAndStyle
ReachedPipeline ==
    \/ \E r \in runs : ~Analysing(r)
    \/ RunOver /\ \A res \in runH.analysis : res.error = ""

\* C11: with no provider API key configured, the generation pipeline sends
\* no request to the provider, retries nothing, and ends with the
\* missing-credential error.
C11_MissingProviderKeyIsFatal ==
    ~env.leonardoKey =>
        /\ ~runH.providerAsked
        /\ ~runH.retried
        /\ (RunOver /\ ReachedPipeline)
             => ui.processingError = "Leonardo API key missing"

\* C12: with no description-service API key configured,
\* analyzeImageWithOpenAI sends no request to the description service and
\* returns a result with an error set and an empty text.
C12_NoKeyNoRequest ==
    ~env.openaiKey =>
        /\ ~runH.descAsked
        /\ \A res \in runH.analysis :
             res.error # "" /\ res.text = 0 /\ res.englishText = NoText

\* the call was made without a key and has returned
C12_Witness ==
    /\ ~env.openaiKey
    /\ runH.analysis = {MissingKeyResult}
    /\ ~runH.descAsked

\* the pipeline state of the run under study
Pc == IF runs = {} THEN "over" ELSE TheRun.p.pc

TransferFailed == runH.lastTransfer \in S3Outcomes \ {"stored"}

\* C13: once init-image has returned a complete upload target, uploadImage
\* returns the upload id however the transfer to the presigned URL ends
\* (for the user image the pipeline goes on to the style step, for the
\* style image the request is submitted with the style reference); it
\* returns null only from the steps before: the Blob could not be built,
\* or the init-image request failed or returned incomplete data.
C13_TransferNeverFailsUpload ==
    /\ [][Pc = "userS3" => Pc' = "styleFetch"]_vars
    /\ [][Pc = "styleS3" => Pc' = "submit" /\ TheRun'.p.styled]_vars
    /\ [][(Pc \in {"userBlob", "userInit", "userS3"} /\ RunOver')
           => Pc \in {"userBlob", "userInit"}]_vars
    /\ [][(Pc \in {"styleBlob", "styleInit", "styleS3"} /\ Pc' = "submit"
           /\ ~TheRun'.p.styled) => Pc \in {"styleBlob", "styleInit"}]_vars

\* the transfer of the user image failed and the pipeline went on with the
\* upload id
C13_Witness == TransferFailed /\ Pc = "styleFetch"

StyleStages == {"styleFetch", "styleBlob", "styleInit", "styleS3"}

\* C14: no outcome of the style-reference step ends the run: from every
\* state of that step the run stays in the step or goes on to submission;
\* and the generation request carries the style-reference controlnet
\* exactly when the upload of the style image returned an id.
C14_StyleStepNeverFatal ==
    /\ [][(Pc \in StyleStages) =>
             (Pc' \in StyleStages \cup {"submit"})]_vars
    /\ [](Pc = "submit" =>
            (GenPayload(TheRun.p).controlnet <=> runH.styleStep = "uploaded"))
    /\ [](runH.styleStep \in {"fetchFailed", "uploadNull"} =>
            Pc \in {"submit", "poll", "over"})

\* the style step failed and the request is in flight without a controlnet
C14_Witness ==
    /\ Pc = "submit"
    /\ runH.styleStep \in {"fetchFailed", "uploadNull"}
    /\ ~GenPayload(TheRun.p).controlnet
    /\ TheRun.p.f.pc = "fetch"

\* the run under study started with a description in the page state and
\* has made no analysis of its own
Cached == ui.englishText.kind = "description" /\ runH.analysis = {}

\* C15: a run that starts with an English description in the page state
\* sends no request to the description service and goes straight to
\* generation with that description as prompt.
C15_CachedDescriptionSkipsAnalysis ==
    Cached =>
        /\ ~runH.descAsked
        /\ ~RunOver => /\ ~Analysing(TheRun)
                       /\ TheRun.p.prompt = ui.englishText

\* the generation request of a run with a cached description is in flight
C15_Witness ==
    /\ Cached
    /\ Pc = "submit"
    /\ GenPayload(TheRun.p).prompt = <<DescOf(1), DefaultStylePrompt>>
    /\ ~runH.descAsked

\* C16: when the run got as far as polling (image shown, analysis made or
\* cached, user image uploaded, submission accepted) and the provider
\* answers the first status request with COMPLETE and an image URL, the run
\* is over with that URL stored as the result, no error, isProcessing
\* reset, and exactly one status request sent.
C16_CompleteOnFirstPoll ==
    runH.firstPoll = "COMPLETE" =>
        /\ RunOver
        /\ ui.processedImageUrl = "generatedImageUrl"
        /\ ui.processingError = ""
        /\ ~ui.isProcessing
        /\ runH.statusFetches = 1

\* a run with its own successful analysis ended on the first status answer
C16_Witness ==
    /\ runH.firstPoll = "COMPLETE"
    /\ \E res \in runH.analysis : res.error = ""
    /\ RunOver
    /\ ResultStored
    /\ runH.statusFetches = 1

(***************************************************************************)
(* Output dimensions (leonardoService.ts, processWithImageToImageAndStyle, *)
(* lines 1073-1197; the same computation is repeated at lines 517-641).    *)
(* JavaScript numbers are IEEE-754 doubles.  aspectRatio = width / height  *)
(* is rounded to 53 significant bits; the ratio is kept here as the pair   *)
(* (width, height) and the two expressions that use it are evaluated with  *)
(* the rounding a double gives them.                                       *)
(***************************************************************************)
MaxSide == 96

minDimension == 512

maxDimension == 768

pixelLimit == 589824

Max(a, b) == IF a >= b THEN a ELSE b

\* Math.floor(n / 8) * 8
FloorTo8(n) == (n \div 8) * 8

RECURSIVE ShiftMod(_, _, _)
\* (v * 2^k) mod m, by k doublings
ShiftMod(v, k, m) == IF k = 0 THEN v % m ELSE ShiftMod((2 * v) % m, k - 1, m)

RECURSIVE ScaleUp(_, _)
\* a * 2^j for the least j with 2 * (a * 2^j) > b
ScaleUp(a, b) == IF 2 * a > b THEN a ELSE ScaleUp(2 * a, b)

RECURSIVE Pow2Below(_, _)
\* the largest power of two p * 2^j that is at most e
Pow2Below(p, e) == IF 2 * p > e THEN p ELSE Pow2Below(2 * p, e)

\* Whether the double width / height is larger than the rational
\* width / height, and by how many parts of `den` of one unit in its last
\* place.  The ratio is scaled by a power of two into (1/2, 1], which leaves
\* the 53-bit significand unchanged.
AspectRatioError(width, height) ==
    LET num == ScaleUp(width, height)
        den == ScaleUp(height, num)
        r   == ShiftMod(num % den, 53, den)
    IN  [num |-> num, den |-> den,
         above |-> IF num = den \/ 2 * r <= den THEN 0 ELSE den - r]

\* Math.floor(side * aspectRatio / 8) * 8.  side is a multiple of 8, so the
\* product and the division by 8 are exact in doubles, and the rounding of
\* aspectRatio is too small to cross an integer: the floor is the exact one.
TimesAspectRatio_Unaligned(side, width, height) == (side * width) \div height

TimesAspectRatio(side, width, height) ==
    ((side * width) \div (8 * height)) * 8

\* Math.floor(side / aspectRatio / 8) * 8.  When side * height / width is a
\* whole multiple of 8 and aspectRatio was rounded upwards far enough, the
\* double quotient side / aspectRatio is the double just below that
\* multiple, and the floor is one less than the exact one.
OverAspectRatio(side, width, height) ==
    LET exact == (side * height) \div (8 * width)
        whole == (side * height) % (8 * width) = 0
        e     == (side * height) \div width
        err   == AspectRatioError(width, height)
        p     == Pow2Below(1, Max(e, 1))
        below == /\ whole
                 /\ err.above > 0
                 /\ IF p = e
                      THEN 2 * err.above * side * height > p * err.num * width
                      ELSE err.above * side * height > p * err.num * width
    IN  (IF below THEN exact - 1 ELSE exact) * 8

\* (mutant) the capped height is not raised to minDimension
WideSize_NoFloor(width, height) ==
    LET outputHeight == Max(minDimension, FloorTo8(minDimension))
        outputWidth  == TimesAspectRatio(outputHeight, width, height)
    IN  IF outputWidth > maxDimension
          THEN [width  |-> FloorTo8(maxDimension),
                height |-> OverAspectRatio(FloorTo8(maxDimension), width,
                                           height)]
          ELSE [width |-> outputWidth, height |-> outputHeight]

\* lines 1104-1119: aspectRatio >= 1
WideSize(width, height) ==
    LET outputHeight == Max(minDimension, FloorTo8(minDimension))
        outputWidth  == TimesAspectRatio(outputHeight, width, height)
        cappedWidth  == FloorTo8(maxDimension)
        cappedHeight == OverAspectRatio(cappedWidth, width, height)
    IN  IF outputWidth > maxDimension
          THEN [width  |-> cappedWidth,
                height |-> IF cappedHeight < minDimension
                             THEN FloorTo8(minDimension) ELSE cappedHeight]
          ELSE [width |-> outputWidth, height |-> outputHeight]

\* lines 1127-1142: aspectRatio < 1
TallSize(width, height) ==
    LET outputWidth  == Max(minDimension, FloorTo8(minDimension))
        outputHeight == OverAspectRatio(outputWidth, width, height)
        cappedHeight == FloorTo8(maxDimension)
        cappedWidth  == TimesAspectRatio(cappedHeight, width, height)
    IN  IF outputHeight > maxDimension
          THEN [width  |-> IF cappedWidth < minDimension
                             THEN FloorTo8(minDimension) ELSE cappedWidth,
                height |-> cappedHeight]
          ELSE [width |-> outputWidth, height |-> outputHeight]

\* Math.floor(side * Math.sqrt(pixelLimit / pixelCount) / 8) * 8 for sides
\* that are multiples of 8, with the square root taken exactly: the largest
\* k with (8k)^2 * pixelCount <= side^2 * pixelLimit, both sides divided by
\* 64 * 64.
ScaledSide(side, size) ==
    LET s == side \div 8
        a == size.width \div 8
        b == size.height \div 8
        k == CHOOSE n \in 0..s :
                 /\ n * n * a * b <= s * s * (pixelLimit \div 64)
                 /\ (n + 1) * (n + 1) * a * b > s * s * (pixelLimit \div 64)
    IN  8 * k

\* lines 1153-1188
WithinPixelLimit(size) ==
    LET pixelCount == size.width * size.height
        w == ScaledSide(size.width, size)
        h == ScaledSide(size.height, size)
    IN  IF pixelCount > pixelLimit
          THEN [width  |-> IF w < minDimension THEN FloorTo8(minDimension) ELSE w,
                height |-> IF h < minDimension THEN FloorTo8(minDimension) ELSE h]
          ELSE size

DefaultSize == [width |-> 512, height |-> 512]

\* lines 1074-1197: the output size for the given image dimensions
OutputSize(width, height) ==
    IF width > 0 /\ height > 0
      THEN WithinPixelLimit(IF width >= height THEN WideSize(width, height)
                                               ELSE TallSize(width, height))
      ELSE DefaultSize

NoSize == [width |-> 0, height |-> 0]

DimInput(width, height) ==
    [pc |-> "input", width |-> width, height |-> height,
     out |-> NoSize, again |-> NoSize]

OthersIdleForDims ==
    /\ fr = NoFetch /\ frHist = <<>> /\ frWaits = <<>>
    /\ wc = WcIdle /\ wcH = NoHist
    /\ wr = WrIdle /\ wrH = NoHist
    /\ PageAtMount(TRUE)
    /\ runH = NoRunHist /\ elem = ElemIdle /\ txt = TxtIdle /\ ana = AnaIdle
    /\ multi = MultiIdle

InitDims ==
    /\ \E width \in 0..MaxSide, height \in 0..MaxSide :
           dim = DimInput(width, height)
    /\ OthersIdleForDims

dimFrame == <<fr, frHist, frWaits, wc, wcH, wr, wrH, env, ui, rendered, loads,
              analyses, clicks, runs, nCaptured, nRuns, runH, elem, txt, ana,
              multi>>

\* the size is computed for the image's dimensions
Normalize ==
    /\ dim.pc = "input"
    /\ dim' = [dim EXCEPT !.pc = "normalized",
                          !.out = OutputSize(dim.width, dim.height)]
    /\ UNCHANGED dimFrame

\* the size is computed again, for an image of the size computed first
Renormalize ==
    /\ dim.pc = "normalized"
    /\ dim' = [dim EXCEPT !.pc = "renormalized",
                          !.again = OutputSize(dim.out.width, dim.out.height)]
    /\ UNCHANGED dimFrame

NextDims == Normalize \/ Renormalize

SpecDims == InitDims /\ [][NextDims]_vars

PositiveInput == dim.width > 0 /\ dim.height > 0

(* C17: for every positive input the computed width and height are both    *)
(* multiples of 8, both at least minDimension, both at most maxDimension,  *)
(* and their product is at most pixelLimit.                                *)
C17_OutputSizeWithinLimits ==
    (dim.pc \in {"normalized", "renormalized"} /\ PositiveInput) =>
        /\ dim.out.width % 8 = 0
        /\ dim.out.height % 8 = 0
        /\ dim.out.width >= minDimension
        /\ dim.out.height >= minDimension
        /\ dim.out.width <= maxDimension
        /\ dim.out.height <= maxDimension
        /\ dim.out.width * dim.out.height <= pixelLimit

\* a wide image whose width was cut back to maxDimension, and a tall one
\* whose height lies strictly between the limits
C17_Witness ==
    /\ dim.pc = "normalized"
    /\ PositiveInput
    /\ \/ dim.width > 2 * dim.height /\ dim.out.width = maxDimension
       \/ dim.width < dim.height /\ dim.out.height > minDimension
                                 /\ dim.out.height < maxDimension

(* C18: for every positive input, computing the size again for the size    *)
(* computed first returns that size unchanged.                             *)
C18_NormalizationIdempotent ==
    (dim.pc = "renormalized" /\ PositiveInput) => dim.again = dim.out

(***************************************************************************)
(* Element weights (leonardoService.ts, safelyAddElements, lines           *)
(* 1750-1812).  Weights are counted in hundredths and the step grid in     *)
(* thousandths.  The inputs are the weights with two decimals inside the   *)
(* mode's range and the positions of the page's slider (step 0.1 from the  *)
(* element's minWeight to its maxWeight); for these the quotient           *)
(* (weight - minWeight) / stepSize is never within rounding error of a     *)
(* half, so Math.round is the exact rounding.  toFixed(2) is exact too,    *)
(* except on a grid value with a 5 in the third decimal, where the         *)
(* direction depends on the double that minWeight + steps * stepSize       *)
(* evaluates to.                                                           *)
(***************************************************************************)
Models == {"ANIME_XL", "ALBEDO_BASE_XL"}

\* getAvailableElements: the one element, weights in hundredths
CuteEmotes ==
    [minWeight |-> 10, maxWeight |-> 200, models |-> {"ANIME_XL"}]

\* line 1773, in hundredths
MinWeight(isLeonardoProcess) == IF isLeonardoProcess THEN 75 ELSE 50

\* line 1774, in hundredths
MaxWeight(element) == element.maxWeight

\* line 1777, in thousandths: (maxWeight - minWeight) / 50
StepSize(minWeight, maxWeight) == ((maxWeight - minWeight) * 10) \div 50

\* Math.round(n / d) for d > 0: the nearest integer, halves upwards
Round(n, d) == (2 * n + d) \div (2 * d)

\* line 1780
Steps(weight, minWeight, stepSize) ==
    Round(weight * 10 - minWeight * 10, stepSize)

\* What rounding to nearest, ties to even, adds to an integer when its
\* `bits` lowest bits are dropped; low is the integer modulo 8192.
RoundingAdjustment(low, bits) ==
    LET unit == 2 ^ bits
        r    == low % unit
        odd  == (low \div unit) % 2 = 1
    IN  IF bits = 0 THEN 0
        ELSE IF 2 * r < unit \/ (2 * r = unit /\ ~odd) THEN 0 - r
        ELSE unit - r

RECURSIVE DroppedBits(_, _)
\* the number of bits the 53-bit product steps * stepSize loses: the
\* largest j with 5 * 2^j <= 8 * steps (stepSize is 1.6 * 2^-6)
DroppedBits(j, steps) ==
    IF 5 * 2 ^ (j + 1) <= 8 * steps THEN DroppedBits(j + 1, steps) ELSE j

\* For minWeight 0.75 and stepSize 0.025, whether the double
\* 0.75 + steps * 0.025 is at least the decimal 0.75 + steps / 40.
\* The double 0.025 is M * 2^-58 with 5 * M = 2^55 + 2, so M modulo 8192 is
\* twice the inverse of 5, and M * 2^-58 exceeds 1/40 by 2/5 of 2^-58.  The
\* product loses DroppedBits bits, the sum loses 5 bits below 1 and 6 bits
\* from 1 on; the result differs from the decimal by
\* (2 * steps / 5 + d1 + d2) * 2^-58.
SumNotBelowDecimal(steps) ==
    LET inv5 == CHOOSE x \in 0..8191 : (5 * x) % 8192 = 1
        low  == (steps * ((2 * inv5) % 8192)) % 8192
        d1   == RoundingAdjustment(low, DroppedBits(0, steps))
        d2   == RoundingAdjustment((low + d1 + 8192) % 8192,
                                   IF steps < 10 THEN 5 ELSE 6)
    IN  2 * steps + 5 * (d1 + d2) >= 0

\* line 1781: Number((minWeight + steps * stepSize).toFixed(2)), in
\* hundredths.  A third decimal of 5 arises only for minWeight 0.75 with
\* stepSize 0.025 and odd steps between 1 and 49.
NormalizedWeight(steps, minWeight, stepSize) ==
    LET v == minWeight * 10 + steps * stepSize
    IN  IF v % 10 = 5 /\ SumNotBelowDecimal(steps)
          THEN v \div 10 + 1
          ELSE v \div 10

\* (mutant) the normalized weight is used without Math.max and Math.min
SafeWeight_Unclamped(weight, minWeight, maxWeight) ==
    LET stepSize == StepSize(minWeight, maxWeight)
    IN  NormalizedWeight(Steps(weight, minWeight, stepSize), minWeight,
                         stepSize)

\* lines 1784-1787
SafeWeight(weight, minWeight, maxWeight) ==
    LET stepSize == StepSize(minWeight, maxWeight)
        steps    == Steps(weight, minWeight, stepSize)
    IN  Max(minWeight,
            Min(maxWeight, NormalizedWeight(steps, minWeight, stepSize)))

\* lines 1768-1769
IsCompatible(element, modelId) ==
    element.models = {} \/ modelId \in element.models

\* the slider of the page: step 0.1 from minWeight to maxWeight
SliderWeights(element) ==
    {w \in element.minWeight..element.maxWeight : w % 10 = 0}

\* weights no slider position gives: below the slider, and above the
\* element's maximum
OutsideWeights == {-10, 0, 5, 201, 213, 250}

WeightInputs(isLeonardoProcess) ==
    MinWeight(isLeonardoProcess)..MaxWeight(CuteEmotes)
        \cup SliderWeights(CuteEmotes) \cup OutsideWeights

ElemInput(isLeonardoProcess, modelId, weight) ==
    [pc |-> "input", isLeonardoProcess |-> isLeonardoProcess,
     modelId |-> modelId, weight |-> weight, added |-> FALSE, safeWeight |-> 0]

OthersIdleForWeights ==
    /\ fr = NoFetch /\ frHist = <<>> /\ frWaits = <<>>
    /\ wc = WcIdle /\ wcH = NoHist
    /\ wr = WrIdle /\ wrH = NoHist
    /\ PageAtMount(TRUE)
    /\ runH = NoRunHist /\ dim = DimIdle /\ txt = TxtIdle /\ ana = AnaIdle
    /\ multi = MultiIdle

InitWeights ==
    /\ \E isLeonardoProcess \in BOOLEAN, modelId \in Models :
         \E weight \in WeightInputs(isLeonardoProcess) :
           elem = ElemInput(isLeonardoProcess, modelId, weight)
    /\ OthersIdleForWeights

elemFrame == <<fr, frHist, frWaits, wc, wcH, wr, wrH, env, ui, rendered, loads,
               analyses, clicks, runs, nCaptured, nRuns, runH, dim, txt, ana,
               multi>>

\* lines 1763-1791: a compatible element is added with its safe weight
SafelyAddElements ==
    /\ elem.pc = "input"
    /\ IsCompatible(CuteEmotes, elem.modelId)
    /\ elem' = [elem EXCEPT
                  !.pc = "done",
                  !.added = TRUE,
                  !.safeWeight = SafeWeight(elem.weight,
                                            MinWeight(elem.isLeonardoProcess),
                                            MaxWeight(CuteEmotes))]
    /\ UNCHANGED elemFrame

\* lines 1797-1799: an incompatible element is left out
SkipIncompatibleElement ==
    /\ elem.pc = "input"
    /\ ~IsCompatible(CuteEmotes, elem.modelId)
    /\ elem' = [elem EXCEPT !.pc = "done"]
    /\ UNCHANGED elemFrame

NextWeights == SafelyAddElements \/ SkipIncompatibleElement

SpecWeights == InitWeights /\ [][NextWeights]_vars

WeightInRange ==
    /\ elem.weight >= MinWeight(elem.isLeonardoProcess)
    /\ elem.weight <= MaxWeight(CuteEmotes)

(* C19: for both mode minimums and the element's maximum, every weight in  *)
(* [min, max] results in a weight in [min, max] that equals                *)
(* min + k * stepSize for an integer k in 0..50.                           *)
C19_WeightOnStepGrid ==
    (elem.pc = "done" /\ elem.added /\ WeightInRange) =>
        LET minWeight == MinWeight(elem.isLeonardoProcess)
            maxWeight == MaxWeight(CuteEmotes)
        IN  /\ elem.safeWeight >= minWeight
            /\ elem.safeWeight <= maxWeight
            /\ \E k \in 0..50 :
                   elem.safeWeight * 10 =
                       minWeight * 10 + k * StepSize(minWeight, maxWeight)

(***************************************************************************)
(* separateChineseAndEnglishText (part_008, lines 129-180).  A text is a   *)
(* sequence of tokens: the two markers (the patterns are case-insensitive, *)
(* so "[english]" is a marker too), a Chinese word, the English word       *)
(* "Hello", a space and a newline.                                         *)
(***************************************************************************)
MaxTextLen == 6

ChineseMarkers == {"[Chinese]"}

EnglishMarkers == {"[English]", "[english]"}

Whitespace == {" ", "\n"}

Words == {"nihao", "Hello"}

Tokens == ChineseMarkers \cup EnglishMarkers \cup Words \cup Whitespace

Texts == UNION {[1..n -> Tokens] : n \in 0..MaxTextLen}

\* the first index from i on whose token is in S, or Len(s) + 1
RECURSIVE IndexOf(_, _, _)
IndexOf(s, S, i) ==
    IF i > Len(s) \/ s[i] \in S THEN i ELSE IndexOf(s, S, i + 1)

RECURSIVE TrimStart(_)
TrimStart(s) ==
    IF s # <<>> /\ Head(s) \in Whitespace THEN TrimStart(Tail(s)) ELSE s

RECURSIVE TrimEnd(_)
TrimEnd(s) ==
    IF s # <<>> /\ s[Len(s)] \in Whitespace
      THEN TrimEnd(SubSeq(s, 1, Len(s) - 1)) ELSE s

\* String.prototype.trim
Trim(s) == TrimEnd(TrimStart(s))

\* the end of the longest match of \n\s*\n that starts at the newline s[i]:
\* the last newline of the whitespace run after i, or i if there is none
RECURSIVE BlankEnd(_, _, _)
BlankEnd(s, j, last) ==
    IF j > Len(s) \/ s[j] \notin Whitespace THEN last
    ELSE BlankEnd(s, j + 1, IF s[j] = "\n" THEN j ELSE last)

\* replace(/\n\s*\n/g, '\n') from index i on
RECURSIVE CollapseBlank(_, _)
CollapseBlank(s, i) ==
    IF i > Len(s) THEN <<>>
    ELSE IF s[i] = "\n"
      THEN <<"\n">> \o CollapseBlank(s, BlankEnd(s, i + 1, i) + 1)
      ELSE <<s[i]>> \o CollapseBlank(s, i + 1)

\* the end of the run of newlines that starts at s[i]
RECURSIVE RunEnd(_, _)
RunEnd(s, j) ==
    IF j + 1 <= Len(s) /\ s[j + 1] = "\n" THEN RunEnd(s, j + 1) ELSE j

\* replace(/\n{3,}/g, '\n\n') from index i on
RECURSIVE CollapseRuns(_, _)
CollapseRuns(s, i) ==
    IF i > Len(s) THEN <<>>
    ELSE IF s[i] = "\n"
      THEN LET e == RunEnd(s, i)
           IN  (IF e - i + 1 >= 3 THEN <<"\n", "\n">>
                                  ELSE SubSeq(s, i, e))
                   \o CollapseRuns(s, e + 1)
      ELSE <<s[i]>> \o CollapseRuns(s, i + 1)

\* lines 137, 145, 173, 174
Compress(s) == CollapseRuns(CollapseBlank(s, 1), 1)

\* line 134: the capture of /\[Chinese\]([\s\S]*?)(?=\[English\]|$)/i, the
\* empty text when the pattern does not match
ChineseMatch_ToTheEnd(text) ==
    LET c == IndexOf(text, ChineseMarkers, 1)
    IN  SubSeq(text, c + 1, Len(text))

ChineseMatch(text) ==
    LET c == IndexOf(text, ChineseMarkers, 1)
        e == IndexOf(text, EnglishMarkers, c + 1)
    IN  SubSeq(text, c + 1, e - 1)

\* line 142: the capture of /\[English\]([\s\S]*?)$/i
EnglishMatch(text) ==
    LET e == IndexOf(text, EnglishMarkers, 1)
    IN  SubSeq(text, e + 1, Len(text))

\* lines 135-138 and 143-146
Captured(match) == IF match # <<>> THEN Compress(Trim(match)) ELSE <<>>

\* the number of characters of a token
TokenLength(t) ==
    IF t \in ChineseMarkers \cup EnglishMarkers THEN 9
    ELSE IF t \in Words THEN 5
    ELSE 1

RECURSIVE Length(_)
Length(s) == IF s = <<>> THEN 0 ELSE TokenLength(Head(s)) + Length(Tail(s))

\* the line that starts at index i: up to the next newline
LineAt(text, i) == SubSeq(text, i, IndexOf(text, {"\n"}, i) - 1)

\* lines 157-159: /^[a-zA-Z\s\d.,;:()\-'"!?]+$/ on the trimmed line, which
\* must be longer than 10 characters
IsEnglishLine_AnyLength(line) ==
    /\ Trim(line) # <<>>
    /\ \A k \in 1..Len(Trim(line)) : Trim(line)[k] \in {"Hello", " "}

IsEnglishLine(line) ==
    /\ Trim(line) # <<>>
    /\ \A k \in 1..Len(Trim(line)) : Trim(line)[k] \in {"Hello", " "}
    /\ Length(Trim(line)) > 10

\* lines 154-165: the start of the first English line from the line that
\* starts at i on, or 0 if there is none
RECURSIVE FirstEnglishLine(_, _)
FirstEnglishLine(text, i) ==
    IF i > Len(text) + 1 THEN 0
    ELSE IF IsEnglishLine(LineAt(text, i)) THEN i
    ELSE FirstEnglishLine(text, IndexOf(text, {"\n"}, i) + 1)

\* lines 150-175
SplitByLines(text) ==
    LET i == FirstEnglishLine(text, 1)
    IN  IF i = 0
          THEN [chineseText |-> Compress(text), englishText |-> Compress(text)]
          ELSE [chineseText |-> Compress(Trim(SubSeq(text, 1, i - 2))),
                englishText |-> Compress(Trim(SubSeq(text, i, Len(text))))]

MarkersFound_Both(text) ==
    Captured(ChineseMatch(text)) # <<>> /\ Captured(EnglishMatch(text)) # <<>>

MarkersFound(text) ==
    Captured(ChineseMatch(text)) # <<>> \/ Captured(EnglishMatch(text)) # <<>>

\* lines 129-180
SeparateChineseAndEnglishText(text) ==
    IF MarkersFound(text)
      THEN [chineseText |-> Captured(ChineseMatch(text)),
            englishText |-> Captured(EnglishMatch(text))]
      ELSE SplitByLines(text)

TxtInput(text) ==
    [pc |-> "input", text |-> text, chineseText |-> <<>>, englishText |-> <<>>]

OthersIdleForText ==
    /\ fr = NoFetch /\ frHist = <<>> /\ frWaits = <<>>
    /\ wc = WcIdle /\ wcH = NoHist
    /\ wr = WrIdle /\ wrH = NoHist
    /\ PageAtMount(TRUE)
    /\ runH = NoRunHist /\ dim = DimIdle /\ elem = ElemIdle /\ ana = AnaIdle
    /\ multi = MultiIdle

InitText ==
    /\ \E text \in Texts : txt = TxtInput(text)
    /\ OthersIdleForText

txtFrame == <<fr, frHist, frWaits, wc, wcH, wr, wrH, env, ui, rendered, loads,
              analyses, clicks, runs, nCaptured, nRuns, runH, dim, elem, ana,
              multi>>

Separated(result) ==
    txt' = [txt EXCEPT !.pc = "done",
                       !.chineseText = result.chineseText,
                       !.englishText = result.englishText]

\* lines 134-147: a marked section was found
SeparateByMarkers ==
    /\ txt.pc = "input"
    /\ MarkersFound(txt.text)
    /\ Separated(SeparateChineseAndEnglishText(txt.text))
    /\ UNCHANGED txtFrame

\* lines 150-175: no marked section, the text is split by lines
SeparateByLines ==
    /\ txt.pc = "input"
    /\ ~MarkersFound(txt.text)
    /\ Separated(SeparateChineseAndEnglishText(txt.text))
    /\ UNCHANGED txtFrame

NextText == SeparateByMarkers \/ SeparateByLines

SpecText == InitText /\ [][NextText]_vars

\* the sections A and B of a text "[Chinese]" A "[English]" B
SectionA == SubSeq(txt.text, 2, IndexOf(txt.text, {"[English]"}, 2) - 1)

SectionB ==
    SubSeq(txt.text, IndexOf(txt.text, {"[English]"}, 2) + 1, Len(txt.text))

NoMarker(s) ==
    \A k \in 1..Len(s) : s[k] \notin ChineseMarkers \cup EnglishMarkers

\* no line made of whitespace only between two lines of the section
NoBlankLine(s) ==
    \A i, j \in 1..Len(Trim(s)) :
        (i < j /\ Trim(s)[i] = "\n" /\ Trim(s)[j] = "\n") =>
            \E k \in i..j : Trim(s)[k] \notin Whitespace

MarkedText ==
    /\ Len(txt.text) >= 2
    /\ txt.text[1] = "[Chinese]"
    /\ IndexOf(txt.text, {"[English]"}, 2) <= Len(txt.text)
    /\ NoMarker(SectionA) /\ NoMarker(SectionB)
    /\ Trim(SectionA) # <<>> /\ Trim(SectionB) # <<>>
    /\ NoBlankLine(SectionA) /\ NoBlankLine(SectionB)

(* C20: for a text "[Chinese]" A "[English]" B, where A and B are          *)
(* non-empty after trimming and contain no marker and no blank line, the   *)
(* result is chineseText = trim(A) and englishText = trim(B).              *)
C20_MarkedSectionsAreTrimmed ==
    (txt.pc = "done" /\ MarkedText) =>
        /\ txt.chineseText = Trim(SectionA)
        /\ txt.englishText = Trim(SectionB)

\* a marked text with space around both sections, which the result lacks
C20_Witness ==
    /\ txt.pc = "done"
    /\ MarkedText
    /\ SectionA # Trim(SectionA)
    /\ SectionB # Trim(SectionB)
    /\ txt.englishText = <<"Hello">>

\* the indices at which a line of the text starts
LineStarts(s) == {1} \cup {i + 1 : i \in {k \in 1..Len(s) : s[k] = "\n"}}

\* a line of ASCII characters only with 10 or more characters
HasLongAsciiLine(s) ==
    \E i \in LineStarts(s) :
        /\ Trim(LineAt(s, i)) # <<>>
        /\ \A k \in 1..Len(Trim(LineAt(s, i))) :
               Trim(LineAt(s, i))[k] \in {"Hello", " "}
        /\ Length(Trim(LineAt(s, i))) >= 10

\* two newlines with nothing but whitespace between them
HasBlankLine(s) ==
    \E i, j \in 1..Len(s) :
        /\ i < j /\ s[i] = "\n" /\ s[j] = "\n"
        /\ \A k \in i..j : s[k] \in Whitespace

UnmarkedText == NoMarker(txt.text) /\ ~HasLongAsciiLine(txt.text)

WcFallsAsleep == wc.pc = "fetch" /\ wc'.pc = "sleep"

(* C22: in waitForGenerationCompletion the sleep between the first and the *)
(* second status fetch equals initialDelay, every later sleep after a      *)
(* PENDING response equals min(previous sleep * 1.5, maxDelay), and no     *)
(* sleep exceeds maxDelay.                                                 *)
C22_SleepsStartAtInitialDelay ==
    [][WcFallsAsleep =>
         /\ wc'.currentDelay <= wc.maxDelay
         /\ (wc.pollCount = 0) => (wc'.currentDelay = DefaultInitialDelay)
         /\ (wc.pollCount > 0 /\ wcH.errors = 0 /\ wcH'.lastBody = "PENDING") =>
                (wc'.currentDelay =
                     Min(TimesOneAndHalf(wc.currentDelay), wc.maxDelay))]_vars

\* the delay waitForGenerationResultUrl passes to setTimeout in state w
WrSleep(w) == POLL_INTERVAL

\* waitForGenerationResultUrl goes to sleep after a poll that was not its
\* first
WrFallsAsleepAgain == wr.pc = "fetch" /\ wr'.pc = "sleep" /\ wr.pollCount > 1

(* C23: the polling of waitForGenerationResultUrl sleeps longer from poll  *)
(* to poll, up to a bound: each sleep after the first is longer than the   *)
(* one before it, and the interval is not a fixed one.                     *)
C23_ResultPollingBacksOff ==
    [][WrFallsAsleepAgain => (WrSleep(wr') > WrSleep(wr))]_vars

(* C24: in fetchWithRetry the wait after failed attempt number a is        *)
(* baseDelay * backoffFactor^a, so each wait of a call is longer than the  *)
(* wait before it.                                                         *)
C24_WaitsGrowWithAttempt ==
    \A k \in 1..(Len(frWaits) - 1) : frWaits[k + 1] > frWaits[k]

(***************************************************************************)
(* The request of analyzeImageWithOpenAI (part_008, lines 17-82): two      *)
(* calls, made one after the other, and the bodies they post.              *)
(***************************************************************************)
Hints == {"", "fluffy", "asleep"}

SystemPrompts == {"default", "custom"}

AnalysisCalls ==
    [imageBase64 : Images, prompt : Hints, systemPrompt : SystemPrompts]

\* lines 46-68: the body of the POST; the parameter prompt is not used
AnalysisPayload(imageBase64, prompt, systemPrompt) ==
    [system |-> systemPrompt,
     text   |-> "Please analyse this picture",
     image  |-> imageBase64]

AnaInput(first, second) ==
    [pc |-> "input", calls |-> <<first, second>>, sent |-> <<>>,
     refused |-> 0]

InitAnalysis ==
    /\ fr = NoFetch /\ frHist = <<>> /\ frWaits = <<>>
    /\ wc = WcIdle /\ wcH = NoHist
    /\ wr = WrIdle /\ wrH = NoHist
    /\ \E key \in BOOLEAN : PageAtMount(key)
    /\ runH = NoRunHist /\ dim = DimIdle /\ elem = ElemIdle /\ txt = TxtIdle
    /\ multi = MultiIdle
    /\ \E first \in AnalysisCalls, second \in AnalysisCalls :
           ana = AnaInput(first, second)

anaFrame == <<fr, frHist, frWaits, wc, wcH, wr, wrH, env, ui, rendered, loads,
              analyses, clicks, runs, nCaptured, nRuns, runH, dim, elem, txt,
              multi>>

\* the call that is made next
NextCall == ana.calls[Len(ana.sent) + ana.refused + 1]

AnaAfterCall(a) ==
    [a EXCEPT !.pc = IF Len(a.sent) + a.refused = 2 THEN "done" ELSE "input"]

\* lines 46-77: the key is set and the request is posted
AnalysisRequestSent ==
    /\ ana.pc = "input"
    /\ AnalysisSendsRequest(env.openaiKey)
    /\ ana' = AnaAfterCall(
                [ana EXCEPT !.sent =
                    Append(ana.sent,
                           AnalysisPayload(NextCall.imageBase64,
                                           NextCall.prompt,
                                           NextCall.systemPrompt))])
    /\ UNCHANGED anaFrame

\* lines 38-44: without the key the call returns before any request
AnalysisRequestRefused ==
    /\ ana.pc = "input"
    /\ ~AnalysisSendsRequest(env.openaiKey)
    /\ ana' = AnaAfterCall([ana EXCEPT !.refused = ana.refused + 1])
    /\ UNCHANGED anaFrame

NextAnalysis == AnalysisRequestSent \/ AnalysisRequestRefused

SpecAnalysis == InitAnalysis /\ [][NextAnalysis]_vars

\* the two calls differ in the hint and in nothing else
DifferOnlyInHint ==
    /\ ana.calls[1].imageBase64 = ana.calls[2].imageBase64
    /\ ana.calls[1].systemPrompt = ana.calls[2].systemPrompt
    /\ ana.calls[1].prompt # ana.calls[2].prompt

(* C25: the request of analyzeImageWithOpenAI carries the caller's hint    *)
(* with the image and the system instruction: two calls that differ only   *)
(* in the hint send different requests.                                    *)
C25_HintIsPartOfTheRequest ==
    (Len(ana.sent) = 2 /\ DifferOnlyInHint) => ana.sent[1] # ana.sent[2]

\* a request to the description service is under way or about to be made
AnalysisUnderWay ==
    \/ \E k \in Images : analyses[k] > 0
    \/ ui.isAnalyzing
    \/ \E r \in runs : Analysing(r)

(* C26: no request to the description service is started or under way      *)
(* while no source image is loaded: whenever analyzeImage or processImage  *)
(* is analysing, the page shows an image, and a run that analyses has one. *)
C26_AnalysisNeedsImage ==
    /\ AnalysisUnderWay => ui.imageUrl # 0
    /\ \A r \in runs : Analysing(r) => r.img # 0

\* an analysis started by the page and one started by processImage at once
C26_Witness ==
    /\ \E k \in Images : analyses[k] > 0
    /\ \E r \in runs : Analysing(r)
    /\ ui.imageUrl # 0

(***************************************************************************)
(* The multi-step pipelines: generateWithMultipleControlNets               *)
(* (leonardoService.ts, lines 1374-1503) and processWithMultipleControlNets *)
(* (part_007, lines 247-357).  The calls they await (uploadImage, the two  *)
(* waiters, getImageUploadUrl, uploadImageToPresignedUrl, createGeneration, *)
(* getGenerationResult) resolve with any value those functions can return; *)
(* the two fetchWithRetry calls of generateWithMultipleControlNets are      *)
(* followed request by request.  sent lists the generation requests        *)
(* posted, in order.                                                       *)
(***************************************************************************)
MultiRun(variant, prompt, pc) ==
    [variant |-> variant, prompt |-> prompt, pc |-> pc, uploadId |-> "none",
     refImageId |-> FALSE, f |-> NoFetch, sent |-> <<>>,
     result |-> Failure("")]

\* line 1389: the function awaits uploadImage
GenerateWithMultipleControlNets(prompt) == MultiRun("generate", prompt, "upload")

\* part_007 line 256: the function awaits getImageUploadUrl
ProcessWithMultipleControlNets(prompt) ==
    MultiRun("process", prompt, "uploadUrl")

MultiDone(m, res) == [m EXCEPT !.pc = "done", !.result = res, !.f = NoFetch]

\* a generation request of the given kind is posted through fetchWithRetry
MultiSubmit(m, kind) ==
    [m EXCEPT !.pc = kind, !.sent = Append(m.sent, kind),
              !.f = FetchWithRetry(DefaultRetries, DefaultDelay)]

\* lines 1389-1396
MultiOnUpload(m, uploadedImageId) ==
    IF uploadedImageId
      THEN MultiSubmit([m EXCEPT !.uploadId = "id"], "reference")
      ELSE MultiDone(m, Failure("UploadFailed"))

\* (mutant) the catch block of the entry point throws the error on
MultiCatch_Rethrows(m, message) == [m EXCEPT !.pc = "rejected", !.f = NoFetch]

\* the catch block around the whole entry point (lines 1496-1502, 353-359
\* and part_007 350-356): the error's message becomes the result
MultiCatch(m, message) == MultiDone(m, Failure(message))

\* lines 1424-1441 and 1481-1497: fetchWithRetry moved to g; once it has
\* returned, response.json() and the test of the generation id
MultiAfterSubmitStep(m, g, body) ==
    IF g.pc = "thrown" THEN MultiCatch(m, g.err)
    ELSE IF g.pc # "returned"
      THEN [m EXCEPT !.f = g,
                     !.sent = IF g.pc = "fetch" /\ g.sent > m.f.sent
                                THEN Append(m.sent, m.pc) ELSE m.sent]
    ELSE IF body = "BADJSON" THEN MultiCatch(m, "Unexpected token")
    ELSE IF body = "NOGENID"
      THEN MultiDone(m, Failure(IF m.pc = "reference"
                                  THEN "ReferenceGenerationFailed"
                                  ELSE "FinalGenerationFailed"))
    ELSE [m EXCEPT !.pc = IF m.pc = "reference" THEN "refWait"
                                                ELSE "finalWait",
                   !.f = NoFetch]

\* lines 1444-1453, as written
MultiOnReference(m, styleImageId) ==
    IF styleImageId
      THEN MultiSubmit([m EXCEPT !.refImageId = TRUE], "final")
      ELSE MultiDone(m, Failure("ReferenceFailedOrTimedOut"))

\* the values waitForGenerationResultUrl resolves with
ResultUrlResults ==
    {Success("generatedImageUrl"), Failure("CompleteWithoutImageUrl"),
     Failure("GenerationFailed"), Failure("WaitTimedOut"),
     Failure("Failed to fetch"), Failure("Unexpected token")}

\* the values getImageUploadUrl resolves with (part_007, lines 22-52): null,
\* or the url, fields and id of the response, whatever the id is
UploadInfos == {"null", "id", "undefined"}

\* part_007 lines 256-262
ProcOnUploadUrl(m, canvasUploadInfo) ==
    IF canvasUploadInfo = "null"
      THEN MultiDone(m, Failure("UploadUrlFailed"))
      ELSE [m EXCEPT !.pc = "upload", !.uploadId = canvasUploadInfo]

\* createGeneration posts one request (part_007, lines 105-128)
ProcCreate(m, kind) == [m EXCEPT !.pc = kind, !.sent = Append(m.sent, kind)]

\* part_007 lines 264-277
ProcOnUpload(m, canvasUploadSuccess) ==
    IF canvasUploadSuccess
      THEN ProcCreate(m, "reference")
      ELSE MultiDone(m, Failure("CanvasUploadFailed"))

\* part_007 lines 290-296 and 337-343
ProcOnCreated(m, generationId) ==
    IF ~generationId
      THEN MultiDone(m, Failure(IF m.pc = "reference"
                                  THEN "CreateInitialFailed"
                                  ELSE "CreateFinalFailed"))
    ELSE IF m.pc = "reference" THEN [m EXCEPT !.pc = "refSleep"]
    ELSE [m EXCEPT !.pc = "finalWait"]

\* the values getGenerationResult resolves with (part_007, lines 135-176)
GenerationResults ==
    {[status |-> "complete", imageId |-> TRUE],
     [status |-> "complete", imageId |-> FALSE],
     [status |-> "failed", imageId |-> FALSE],
     [status |-> "pending", imageId |-> FALSE],
     [status |-> "error", imageId |-> FALSE]}

\* part_007 lines 304-311
ProcOnReference(m, initialResult) ==
    IF initialResult.status # "complete" \/ ~initialResult.imageId
      THEN MultiDone(m, Failure("InitialFailedOrTimedOut"))
      ELSE ProcCreate([m EXCEPT !.refImageId = TRUE], "final")

\* the values waitForGenerationCompletion of part_007 resolves with
\* (lines 202-238)
CompletionResults ==
    {Success("imageUrl"), Failure("GenerationTaskFailed"),
     Failure("GenerationTaskTimedOut")}

InitMulti ==
    /\ fr = NoFetch /\ frHist = <<>> /\ frWaits = <<>>
    /\ wc = WcIdle /\ wcH = NoHist
    /\ wr = WrIdle /\ wrH = NoHist
    /\ PageAtMount(TRUE)
    /\ runH = NoRunHist /\ dim = DimIdle /\ elem = ElemIdle /\ txt = TxtIdle
    /\ ana = AnaIdle
    /\ \E prompt \in BOOLEAN :
         \/ multi = GenerateWithMultipleControlNets(prompt)
         \/ multi = ProcessWithMultipleControlNets(prompt)

multiFrame == <<fr, frHist, frWaits, wc, wcH, wr, wrH, env, ui, rendered,
                loads, analyses, clicks, runs, nCaptured, nRuns, runH, dim,
                elem, txt, ana>>

Generating(pc) == multi.variant = "generate" /\ multi.pc = pc

Processing(pc) == multi.variant = "process" /\ multi.pc = pc

\* uploadImage resolves
MultiUploadReturned ==
    /\ Generating("upload")
    /\ \E uploadedImageId \in BOOLEAN :
           multi' = MultiOnUpload(multi, uploadedImageId)
    /\ UNCHANGED multiFrame

\* the provider answers a POST /generations
MultiSubmitAnswer ==
    /\ multi.variant = "generate" /\ multi.pc \in {"reference", "final"}
    /\ multi.f.pc = "fetch"
    /\ \E resp \in Responses, body \in GenBodies :
           multi' = MultiAfterSubmitStep(multi, FwrOnResponse(multi.f, resp),
                                         body)
    /\ UNCHANGED multiFrame

\* a retry timer of fetchWithRetry fires
MultiSubmitTimer ==
    /\ multi.variant = "generate" /\ multi.pc \in {"reference", "final"}
    /\ FwrSleeping(multi.f)
    /\ multi' = MultiAfterSubmitStep(multi, FwrOnTimer(multi.f), "NONE")
    /\ UNCHANGED multiFrame

\* waitForGenerationCompletion resolves
MultiReferenceWaited ==
    /\ Generating("refWait")
    /\ \E styleImageId \in BOOLEAN :
           multi' = MultiOnReference(multi, styleImageId)
    /\ UNCHANGED multiFrame

\* waitForGenerationResultUrl resolves
MultiFinalWaited ==
    /\ Generating("finalWait")
    /\ \E res \in ResultUrlResults : multi' = MultiDone(multi, res)
    /\ UNCHANGED multiFrame

\* getImageUploadUrl resolves
ProcUploadUrlReturned ==
    /\ Processing("uploadUrl")
    /\ \E info \in UploadInfos : multi' = ProcOnUploadUrl(multi, info)
    /\ UNCHANGED multiFrame

\* uploadImageToPresignedUrl resolves
ProcUploadReturned ==
    /\ Processing("upload")
    /\ \E ok \in BOOLEAN : multi' = ProcOnUpload(multi, ok)
    /\ UNCHANGED multiFrame

\* createGeneration resolves
ProcGenerationCreated ==
    /\ multi.variant = "process" /\ multi.pc \in {"reference", "final"}
    /\ \E generationId \in BOOLEAN : multi' = ProcOnCreated(multi, generationId)
    /\ UNCHANGED multiFrame

\* the 15 s timer fires and getGenerationResult is called
ProcReferenceTimer ==
    /\ Processing("refSleep")
    /\ multi' = [multi EXCEPT !.pc = "refCheck"]
    /\ UNCHANGED multiFrame

\* getGenerationResult resolves
ProcReferenceChecked ==
    /\ Processing("refCheck")
    /\ \E res \in GenerationResults : multi' = ProcOnReference(multi, res)
    /\ UNCHANGED multiFrame

\* waitForGenerationCompletion of part_007 resolves
ProcFinalWaited ==
    /\ Processing("finalWait")
    /\ \E res \in CompletionResults : multi' = MultiDone(multi, res)
    /\ UNCHANGED multiFrame

NextMulti ==
    \/ MultiUploadReturned
    \/ MultiSubmitAnswer
    \/ MultiSubmitTimer
    \/ MultiReferenceWaited
    \/ MultiFinalWaited
    \/ ProcUploadUrlReturned
    \/ ProcUploadReturned
    \/ ProcGenerationCreated
    \/ ProcReferenceTimer
    \/ ProcReferenceChecked
    \/ ProcFinalWaited

SpecMulti == InitMulti /\ [][NextMulti]_vars

FinalSubmitted == \E k \in 1..Len(multi.sent) : multi.sent[k] = "final"

(* C27: in both multi-step pipelines the final generation is submitted     *)
(* only after the upload returned an id and the reference generation was   *)
(* observed complete with an image id, and after the reference generation  *)
(* was submitted; a run whose upload or reference generation failed ends   *)
(* in failure without a final generation.                                  *)
C27_FinalOnlyAfterUploadAndReference ==
    /\ FinalSubmitted =>
         /\ multi.uploadId = "id"
         /\ multi.refImageId
         /\ multi.sent[1] = "reference"
    /\ (multi.pc = "done" /\ ~(multi.uploadId = "id" /\ multi.refImageId)) =>
         ~multi.result.success /\ ~FinalSubmitted

----------------------------------------------------------------------------
(* The generation submission of processWithImageToImageAndStyle under       *)
(* fetchWithRetry (SpecRun)                                                 *)

Submitting == runs # {} /\ TheRun.p.pc = "submit"

Polling == runs # {} /\ TheRun.p.pc = "poll"

\* all answered submissions but the last one failed
OnlyLastMaySucceed ==
    \A k \in 1..(Len(runH.submits) - 1) : runH.submits[k] = "failed"

LastSubmitFailed ==
    /\ runH.submits # <<>>
    /\ runH.submits[Len(runH.submits)] = "failed"

----------------------------------------------------------------------------
(* Requests to the description service in flight (Spec)                     *)

RECURSIVE PageAnalyses(_)
\* the analyzeImage calls awaiting the service for images 1..k
PageAnalyses(k) == IF k = 0 THEN 0 ELSE analyses[k] + PageAnalyses(k - 1)

\* the requests to the description service that are awaited: those of
\* analyzeImage and those of processImage
AnalysesInFlight ==
    IF AnalysisSendsRequest(env.openaiKey)
    THEN PageAnalyses(MaxCaptures) + Cardinality({r \in runs : Analysing(r)})
    ELSE 0

(* C29: at most one request to the description service is in flight at any *)
(* time, whether started by analyzeImage (button, upload, drop, paste) or  *)
(* by processImage without a cached description.                           *)
C29_OneAnalysisInFlight == AnalysesInFlight <= 1

(***************************************************************************)
(* safelyAddElements on a list of selected elements (leonardoService.ts,   *)
(* lines 1750-1812) and its one call site in                               *)
(* processWithImageToImageAndStyle (lines 1243-1246).  A selection is a    *)
(* sequence of [elementId, weight]; payloadElements is the elements field  *)
(* of the request, NoElements while the field is not set.  The model ids   *)
(* are the three MODEL_IDS, taken as distinct.                             *)
(***************************************************************************)
MaxSelected == 2

AllModels == Models \cup {"KINO_XL"}

\* the ids a selection can name: the built-in element and an id that
\* getAvailableElements does not list
ElementIds == {"CuteEmotes", "unlisted"}

SelectedWeights == {50, 77, 200}

Selected == [elementId : ElementIds, weight : SelectedWeights]

Selections == UNION {[1..n -> Selected] : n \in 0..MaxSelected}

NoElements == <<>>

\* line 1764: availableElements.find(e => e.akUUID === elementId)
Listed(elementId) == elementId = "CuteEmotes"

\* (mutant) every listed element passes the model test
Accepted_AnyModel(elementId, modelId) == Listed(elementId)

\* lines 1764-1771: the element is found and compatible with the model
Accepted(elementId, modelId) ==
    Listed(elementId) /\ IsCompatible(CuteEmotes, modelId)

RECURSIVE CompatibleElements(_, _, _)
\* lines 1763-1800: the loop over the selection
CompatibleElements(elements, modelId, isLeonardoProcess) ==
    IF elements = <<>> THEN <<>>
    ELSE LET rest == CompatibleElements(Tail(elements), modelId,
                                        isLeonardoProcess)
             e == Head(elements)
         IN IF Accepted(e.elementId, modelId)
            THEN <<[akUUID |-> e.elementId,
                    weight |-> SafeWeight(e.weight,
                                          MinWeight(isLeonardoProcess),
                                          MaxWeight(CuteEmotes))]>> \o rest
            ELSE rest

\* the call as it is made; pipeline says that it is the call of
\* processWithImageToImageAndStyle (lines 1209 and 1245)
ElementsCall(pipeline, elements, modelId, isLeonardoProcess) ==
    [pc |-> "call", pipeline |-> pipeline, elements |-> elements,
     modelId |-> modelId, isLeonardoProcess |-> isLeonardoProcess,
     payloadElements |-> NoElements]

InitElements ==
    /\ OthersIdleForWeights
    /\ \E elements \in Selections :
         \/ elem = ElementsCall(TRUE, elements, "ALBEDO_BASE_XL", TRUE)
         \/ \E modelId \in AllModels, isLeonardoProcess \in BOOLEAN :
              elem = ElementsCall(FALSE, elements, modelId, isLeonardoProcess)

\* lines 1803-1805: at least one element is compatible and the field is set
ElementsAdded ==
    /\ elem.pc = "call"
    /\ LET compatibleElements ==
               CompatibleElements(elem.elements, elem.modelId,
                                  elem.isLeonardoProcess)
       IN /\ Len(compatibleElements) > 0
          /\ elem' = [elem EXCEPT !.pc = "done",
                                  !.payloadElements = compatibleElements]
    /\ UNCHANGED elemFrame

\* lines 1756 and 1803: an empty selection, or no compatible element: the
\* payload is left as it is (line 1244 skips the call for an empty selection)
ElementsLeftOut ==
    /\ elem.pc = "call"
    /\ Len(CompatibleElements(elem.elements, elem.modelId,
                              elem.isLeonardoProcess)) = 0
    /\ elem' = [elem EXCEPT !.pc = "done"]
    /\ UNCHANGED elemFrame

NextElements == ElementsAdded \/ ElementsLeftOut

SpecElements == InitElements /\ [][NextElements]_vars

\* the selected elements that are listed and whose compatible models are
\* none or include the model of the request
Eligible ==
    {k \in 1..Len(elem.elements) :
        /\ elem.elements[k].elementId = "CuteEmotes"
        /\ (CuteEmotes.models = {} \/ elem.modelId \in CuteEmotes.models)}

(* C30: after safelyAddElements the request holds exactly the selected     *)
(* elements that are in the local list and compatible with the request's   *)
(* model, in order; the elements field is set only if there is at least    *)
(* one; and the call of processWithImageToImageAndStyle never sets it.     *)
C30_OnlyCompatibleElementsSent ==
    elem.pc = "done" =>
      /\ Len(elem.payloadElements) = Cardinality(Eligible)
      /\ \A j \in 1..Len(elem.payloadElements) :
           elem.payloadElements[j].akUUID = "CuteEmotes"
      /\ (elem.payloadElements # NoElements) <=> (Eligible # {})
      /\ elem.pipeline => elem.payloadElements = NoElements

\* a listed and an unlisted element selected for the compatible model
C30_Witness ==
    /\ elem.pc = "done"
    /\ ~elem.pipeline
    /\ Len(elem.elements) = 2
    /\ elem.elements[1].elementId = "unlisted"
    /\ elem.elements[2].elementId = "CuteEmotes"
    /\ Len(elem.payloadElements) = 1

----------------------------------------------------------------------------
(* Clamping of element weights (SpecWeights)                                *)

(* C31: whatever the weight, also below the mode's minimum or above the    *)
(* element's maximum, the weight placed in the request lies in [min, max]; *)
(* a weight not above min gives min and a weight not below max gives max.  *)
C31_WeightIsClamped ==
    (elem.pc = "done" /\ elem.added) =>
        LET minWeight == MinWeight(elem.isLeonardoProcess)
            maxWeight == MaxWeight(CuteEmotes)
        IN  /\ elem.safeWeight >= minWeight
            /\ elem.safeWeight <= maxWeight
            /\ elem.weight <= minWeight => elem.safeWeight = minWeight
            /\ elem.weight >= maxWeight => elem.safeWeight = maxWeight

\* the slider's lowest position in the main pipeline's mode
C31_Witness ==
    /\ elem.pc = "done" /\ elem.added
    /\ elem.isLeonardoProcess
    /\ elem.weight = CuteEmotes.minWeight
    /\ elem.safeWeight = MinWeight(TRUE)

----------------------------------------------------------------------------
(* The short axis of the output size (SpecDims)                             *)

\* the size before the pixel-limit step of lines 1153-1188
SizeBeforePixelLimit ==
    IF dim.width >= dim.height THEN WideSize(dim.width, dim.height)
                               ELSE TallSize(dim.width, dim.height)

(* C32: for every positive input the short axis of the output is exactly   *)
(* minDimension and the long axis lies between minDimension and            *)
(* maxDimension; the pixel count is at most maxDimension * minDimension    *)
(* and the scaling to the pixel limit is never executed.                   *)
C32_ShortAxisIsMinDimension ==
    (dim.pc \in {"normalized", "renormalized"} /\ PositiveInput) =>
        /\ IF dim.width >= dim.height
             THEN /\ dim.out.height = minDimension
                  /\ dim.out.width >= minDimension
                  /\ dim.out.width <= maxDimension
             ELSE /\ dim.out.width = minDimension
                  /\ dim.out.height >= minDimension
                  /\ dim.out.height <= maxDimension
        /\ dim.out.width * dim.out.height <= maxDimension * minDimension
        /\ SizeBeforePixelLimit.width * SizeBeforePixelLimit.height
               <= pixelLimit
        /\ dim.out = SizeBeforePixelLimit

\* a wide image cut back to maxDimension whose height came out at
\* minDimension
C32_Witness ==
    /\ dim.pc = "normalized"
    /\ PositiveInput
    /\ dim.width > 3 * dim.height
    /\ dim.out = [width |-> maxDimension, height |-> minDimension]

----------------------------------------------------------------------------
(* What fetchWithRetry hands to its callers (SpecRetry)                     *)

\* the response the call resolved with: the answer to its last request
Resolved == frHist[Len(frHist)]

\* the test `!response.ok` the callers make on the resolved value (lines
\* 1274 and 1616) succeeds
CallerSeesNonOk == fr.pc = "returned" /\ ~IsOk(Resolved)

(* C33: fetchWithRetry resolves only with a response whose ok flag is      *)
(* true, the first such answer, and a call that never got one does not     *)
(* resolve; the callers' test for a non-OK response never succeeds.        *)
C33_ResolvesOnlyWithOk ==
    /\ fr.pc = "returned" =>
         /\ frHist # <<>>
         /\ IsOk(Resolved)
         /\ \A k \in 1..(Len(frHist) - 1) : ~IsOk(frHist[k])
    /\ (\E k \in 1..Len(frHist) : IsOk(frHist[k])) => fr.pc = "returned"
    /\ ~CallerSeesNonOk

\* resolved on the third attempt, after a 429 and a 500
C33_Witness ==
    /\ fr.pc = "returned"
    /\ frHist = <<Http(429), Http(500), Http(200)>>

----------------------------------------------------------------------------
(* fetchWithRetry under rate limiting (SpecRetry)                           *)

RateLimited(k) == frHist[k] = Http(429)

DefaultMaxAttempts == 30

\* (mutant) the loop never leaves on its counter
AwLoop_Unbounded(w) == [w EXCEPT !.pc = "sleep"]

\* the `attempt < maxAttempts` test and what follows it
AwLoop(w) ==
    IF w.attempt < w.maxAttempts
      THEN [w EXCEPT !.pc = "sleep"]
      ELSE [w EXCEPT !.pc = "done",
                     !.result = Failure("GenerationTaskTimedOut")]

AdvancedWaitForGenerationCompletion(maxAttempts) ==
    AwLoop([pc |-> "idle", attempt |-> 0, maxAttempts |-> maxAttempts,
            requests |-> 0, result |-> Failure("")])

\* setTimeout(interval) fired: getGenerationResult is called
AwOnTimer(w) == [w EXCEPT !.pc = "fetch", !.requests = w.requests + 1]

\* getGenerationResult resolved with res (it never rejects); the first
\* generated image carries its url and its id together
AwOnResult(w, res) ==
    IF res.status = "complete" /\ res.imageId
      THEN [w EXCEPT !.pc = "done", !.result = Success("imageUrl")]
    ELSE IF res.status \in {"failed", "error"}
      THEN [w EXCEPT !.pc = "done",
                     !.result = Failure("GenerationTaskFailed")]
    ELSE AwLoop([w EXCEPT !.attempt = w.attempt + 1])

InitWaiters ==
    \/ InitPoll
    \/ /\ fr = FetchWithRetry(0, 0) /\ frHist = <<>> /\ frWaits = <<>>
       /\ wc = WcIdle /\ wcH = NoHist
       /\ wr = WrIdle /\ wrH = NoHist
       /\ PageAtMount(TRUE)
       /\ runH = NoRunHist /\ dim = DimIdle /\ elem = ElemIdle
       /\ txt = TxtIdle /\ ana = AnaIdle
       /\ \E n \in (1..MaxPollsOption) \cup {DefaultMaxAttempts} :
            multi = AdvancedWaitForGenerationCompletion(n)

\* the setTimeout(interval) of the advanced waiter fires
AdvancedTimer ==
    /\ multi.pc = "sleep"
    /\ multi' = AwOnTimer(multi)
    /\ UNCHANGED multiFrame

\* getGenerationResult resolves
AdvancedResult ==
    /\ multi.pc = "fetch"
    /\ \E res \in GenerationResults : multi' = AwOnResult(multi, res)
    /\ UNCHANGED multiFrame

NextWaiters ==
    \/ CompletionAnswer
    \/ CompletionRetryTimer
    \/ CompletionTimer
    \/ ResultUrlAnswer
    \/ ResultUrlTimer
    \/ AdvancedTimer
    \/ AdvancedResult

\* every pending request is answered and every timer fires
SpecWaiters == InitWaiters /\ [][NextWaiters]_vars /\ WF_vars(NextWaiters)

WaiterReturned ==
    \/ wc.pc = "done"
    \/ wr.pc = "done"
    \/ multi.pc = "done"

RequestsWithinBudget ==
    /\ wcH.fetches <= wc.maxPolls
    /\ wcH.requests <= DefaultRetries * wc.maxPolls
    /\ wrH.requests <= MAX_POLLS
    /\ multi.pc # "idle" => multi.requests <= multi.maxAttempts

(* C35: whatever statuses and errors the provider produces, each waiter    *)
(* returns: waitForGenerationCompletion after at most maxPolls status      *)
(* fetches (at most 3 requests each), waitForGenerationResultUrl after at  *)
(* most 40 requests and the advanced waitForGenerationCompletion after at  *)
(* most maxAttempts requests.                                              *)
C35_WaitersTerminate == []RequestsWithinBudget /\ <>WaiterReturned

\* waitForGenerationCompletion out of polls after three requests in each
C35_Witness ==
    /\ wc.pc = "done" /\ wc.exit = "timeout"
    /\ wc.maxPolls = MaxPollsOption
    /\ wcH.requests = DefaultRetries * wc.maxPolls

(***************************************************************************)
(* The four pipeline entry points, each followed to its return             *)
(* (SpecEntry): the two of SpecMulti, processImageWithLeonardo             *)
(* (leonardoService.ts, lines 196-360) and processWithImageToImageAndStyle *)
(* (lines 1017-1306), whose pipeline state is carried in field p.          *)
(***************************************************************************)

\* lines 200-208 and 239: without an API key the function returns at once,
\* otherwise the initial generation is posted through fetchWithRetry
ProcessImageWithLeonardo(key) ==
    IF key THEN MultiSubmit(MultiRun("leonardo", FALSE, "start"), "reference")
    ELSE MultiDone(MultiRun("leonardo", FALSE, "start"),
                   Failure("ApiKeyMissing"))

\* lines 276-311: waitForGenerationCompletion returned an image id or null;
\* with an id the guided generation is posted with a plain fetch
LeoOnReference(m, initialImageId) ==
    IF initialImageId
      THEN [m EXCEPT !.pc = "guided", !.refImageId = TRUE,
                     !.sent = Append(m.sent, "final")]
      ELSE MultiDone(m, Failure("InitialFailedOrTimedOut"))

\* lines 311-341: the answer to the guided generation request
LeoOnGuided(m, resp, body) ==
    IF resp.kind = "error" THEN MultiCatch(m, "Failed to fetch")
    ELSE IF body = "BADJSON" THEN MultiCatch(m, "Unexpected token")
    ELSE IF ~IsOk(resp) THEN MultiDone(m, Failure("GuidedRequestFailed"))
    ELSE IF body = "NOGENID" THEN MultiDone(m, Failure("NoGuidedGenerationId"))
    ELSE [m EXCEPT !.pc = "finalWait"]

\* processWithImageToImageAndStyle as the run of its pipeline p
StyledRun(prompt) ==
    [variant |-> "styled", prompt |-> FALSE, pc |-> "run", uploadId |-> "none",
     refImageId |-> FALSE, f |-> NoFetch, sent |-> <<>>,
     result |-> Failure(""), p |-> ProcessWithImageToImageAndStyle(prompt)]

\* the states the pipeline p can be in after its next step
PwSteps(p) ==
    IF p.pc \in {"userBlob", "styleBlob"}
      THEN {UpOnBlob(p, ok) : ok \in BOOLEAN}
    ELSE IF p.pc \in {"userInit", "styleInit"}
      THEN IF p.f.pc = "fetch"
             THEN {UpAfterInitStep(p, FwrOnResponse(p.f, r[1]), r[2]) :
                       r \in Responses \X InitBodies}
             ELSE {UpAfterInitStep(p, FwrOnTimer(p.f), "NONE")}
    ELSE IF p.pc \in {"userS3", "styleS3"}
      THEN {UpOnS3(p, outcome) : outcome \in S3Outcomes}
    ELSE IF p.pc = "styleFetch"
      THEN {PwOnStyleFetch(p, outcome) : outcome \in StyleFetchOutcomes}
    ELSE IF p.pc = "submit"
      THEN IF p.f.pc = "fetch"
             THEN {PwAfterSubmitStep(p, FwrOnResponse(p.f, r[1]), r[2]) :
                       r \in Responses \X GenBodies}
             ELSE {PwAfterSubmitStep(p, FwrOnTimer(p.f), "NONE")}
    ELSE IF p.pc = "poll"
      THEN IF p.wr.pc = "fetch"
             THEN {PwAfterPollStep(p, WrOnAnswer(p.wr, a)) : a \in PollAnswers}
             ELSE {PwAfterPollStep(p, WrOnTimer(p.wr))}
    ELSE {}

InitEntry ==
    /\ fr = NoFetch /\ frHist = <<>> /\ frWaits = <<>>
    /\ wc = WcIdle /\ wcH = NoHist
    /\ wr = WrIdle /\ wrH = NoHist
    /\ PageAtMount(TRUE)
    /\ runH = NoRunHist /\ dim = DimIdle /\ elem = ElemIdle /\ txt = TxtIdle
    /\ ana = AnaIdle
    /\ \/ \E prompt \in BOOLEAN :
            \/ multi = GenerateWithMultipleControlNets(prompt)
            \/ multi = ProcessWithMultipleControlNets(prompt)
       \/ \E key \in BOOLEAN : multi = ProcessImageWithLeonardo(key)
       \/ \E prompt \in {NoText, DescOf(1)} : multi = StyledRun(prompt)

\* the provider answers the initial POST /generations of
\* processImageWithLeonardo
LeoSubmitAnswer ==
    /\ multi.variant = "leonardo" /\ multi.pc = "reference"
    /\ multi.f.pc = "fetch"
    /\ \E resp \in Responses, body \in GenBodies :
           multi' = MultiAfterSubmitStep(multi, FwrOnResponse(multi.f, resp),
                                         body)
    /\ UNCHANGED multiFrame

\* a retry timer of that request fires
LeoSubmitTimer ==
    /\ multi.variant = "leonardo" /\ multi.pc = "reference"
    /\ FwrSleeping(multi.f)
    /\ multi' = MultiAfterSubmitStep(multi, FwrOnTimer(multi.f), "NONE")
    /\ UNCHANGED multiFrame

\* waitForGenerationCompletion resolves
LeoReferenceWaited ==
    /\ multi.variant = "leonardo" /\ multi.pc = "refWait"
    /\ \E initialImageId \in BOOLEAN :
           multi' = LeoOnReference(multi, initialImageId)
    /\ UNCHANGED multiFrame

\* the provider answers the guided POST /generations
LeoGuidedAnswer ==
    /\ multi.variant = "leonardo" /\ multi.pc = "guided"
    /\ \E resp \in Responses, body \in GenBodies :
           multi' = LeoOnGuided(multi, resp, body)
    /\ UNCHANGED multiFrame

\* waitForGenerationResultUrl resolves and its value is returned
LeoFinalWaited ==
    /\ multi.variant = "leonardo" /\ multi.pc = "finalWait"
    /\ \E res \in ResultUrlResults : multi' = MultiDone(multi, res)
    /\ UNCHANGED multiFrame

\* processWithImageToImageAndStyle takes its next step
StyledStep ==
    /\ multi.variant = "styled" /\ multi.pc = "run"
    /\ \E q \in PwSteps(multi.p) :
           multi' = IF q.pc = "done"
                      THEN [MultiDone(multi, q.result) EXCEPT !.p = q]
                      ELSE [multi EXCEPT !.p = q]
    /\ UNCHANGED multiFrame

NextEntry ==
    \/ MultiUploadReturned
    \/ MultiSubmitAnswer
    \/ MultiSubmitTimer
    \/ MultiReferenceWaited
    \/ MultiFinalWaited
    \/ ProcUploadUrlReturned
    \/ ProcUploadReturned
    \/ ProcGenerationCreated
    \/ ProcReferenceTimer
    \/ ProcReferenceChecked
    \/ ProcFinalWaited
    \/ LeoSubmitAnswer
    \/ LeoSubmitTimer
    \/ LeoReferenceWaited
    \/ LeoGuidedAnswer
    \/ LeoFinalWaited
    \/ StyledStep

SpecEntry == InitEntry /\ [][NextEntry]_vars

(* C36: no entry point rejects, and every value an entry point returns     *)
(* has a non-empty imageUrl when success is true and an error message when *)
(* success is false.                                                       *)
C36_EntryPointsReturnResponses ==
    /\ multi.pc # "rejected"
    /\ multi.pc = "done" =>
         /\ multi.result.success => multi.result.imageUrl # ""
         /\ ~multi.result.success => multi.result.error # ""

\* processImageWithLeonardo returning the error of a failed guided request
\* after its initial generation completed
C36_Witness ==
    /\ multi.variant = "leonardo" /\ multi.pc = "done"
    /\ multi.refImageId
    /\ multi.result = Failure("Failed to fetch")

----------------------------------------------------------------------------
(* Release of the in-progress flags (Spec)                                  *)

NoAnalysisInFlight == \A k \in Images : analyses[k] = 0

\* the page has rendered its current state, a run is over and an image is
\* loaded
ReadyForRun == runs = {} /\ rendered = ui /\ ui.imageUrl # 0

FlagsReleased ==
    /\ runs = {} => ~ui.isProcessing
    /\ NoAnalysisInFlight => ~ui.isAnalyzing
    /\ ReadyForRun =>
         ~ProcessDisabled(rendered) /\ ~ProcessImageRejects(rendered)

(* C37: whenever no processImage run is under way isProcessing is false,   *)
(* and whenever no analyzeImage call is under way isAnalyzing is false;    *)
(* once the page has rendered that state with an image loaded the process  *)
(* button is enabled, and the 100 ms timer's press then starts a run.      *)
C37_GuardsAreReleased ==
    /\ []FlagsReleased
    /\ [][(ReadyForRun /\ clicks' < clicks) => runs' # {}]_vars

\* a second run under way after the first one has ended
C37_Witness ==
    /\ nRuns = 2
    /\ runs # {}
    /\ ui.isProcessing

\* the text after the first marker of the set S
AfterMarker(S) ==
    SubSeq(txt.text, IndexOf(txt.text, S, 1) + 1, Len(txt.text))

HasMarker(S) == \E k \in 1..Len(txt.text) : txt.text[k] \in S

OnlyChineseMarked ==
    /\ HasMarker(ChineseMarkers) /\ ~HasMarker(EnglishMarkers)
    /\ Trim(AfterMarker(ChineseMarkers)) # <<>>

OnlyEnglishMarked ==
    /\ HasMarker(EnglishMarkers) /\ ~HasMarker(ChineseMarkers)
    /\ Trim(AfterMarker(EnglishMarkers)) # <<>>

\* with one marker only, its section is returned and the other one is empty
OneMarkerIsEnough ==
    /\ (txt.pc = "done" /\ OnlyChineseMarked) =>
          /\ txt.chineseText = Compress(Trim(AfterMarker(ChineseMarkers)))
          /\ txt.englishText = <<>>
    /\ (txt.pc = "done" /\ OnlyEnglishMarked) =>
          /\ txt.chineseText = <<>>
          /\ txt.englishText = Compress(Trim(AfterMarker(EnglishMarkers)))

\* marker extraction leaves both segments empty
ExtractionEmpty ==
    /\ Trim(ChineseMatch(txt.text)) = <<>>
    /\ Trim(EnglishMatch(txt.text)) = <<>>

\* the starts of the ASCII-only lines whose trimmed length exceeds 10
SplitLines ==
    { i \in LineStarts(txt.text) :
        LET line == Trim(LineAt(txt.text, i))
        IN  /\ line # <<>>
            /\ \A k \in 1..Len(line) : line[k] \in {"Hello", " "}
            /\ Length(line) > 10 }

SplitAt == CHOOSE i \in SplitLines : \A j \in SplitLines : i <= j

\* lines 0..i-1 and lines i..end of the text, each joined by newlines
LinesBefore == SubSeq(txt.text, 1, SplitAt - 2)

LinesFrom == SubSeq(txt.text, SplitAt, Len(txt.text))

FallbackSplits == txt.pc = "done" /\ ExtractionEmpty /\ SplitLines # {}

\* the lines of s that are not blank, each one trimmed, in order
RECURSIVE TrimmedLines(_, _)
TrimmedLines(s, i) ==
    IF i > Len(s) THEN <<>>
    ELSE (IF Trim(LineAt(s, i)) = <<>> THEN <<>> ELSE <<Trim(LineAt(s, i))>>)
             \o TrimmedLines(s, IndexOf(s, {"\n"}, i) + 1)

(* C38 as stated: with one marker only, its section is returned and the    *)
(* other segment is empty; when the fallback splits at line i, the Chinese *)
(* segment is lines 0..i-1 and the English segment is lines i..end (up to  *)
(* the whitespace around each segment), so every line is in one segment.   *)
C38_SegmentsAreTheLines ==
    /\ OneMarkerIsEnough
    /\ FallbackSplits =>
          /\ txt.chineseText = Trim(LinesBefore)
          /\ txt.englishText = Trim(LinesFrom)

(* C38 amended: with one marker only, its section is returned and the      *)
(* other segment is empty without any fallback; when extraction leaves     *)
(* both segments empty and the fallback splits at line i, the Chinese      *)
(* segment is lines 0..i-1 and the English segment is lines i..end, each   *)
(* trimmed and with every whitespace-only stretch from one newline to a    *)
(* later one replaced by a single newline: every line that is not blank    *)
(* belongs to exactly one segment, in the order of the text, and a blank   *)
(* line belongs to none.                                                   *)
C38_SegmentsAreTheNonBlankLines ==
    /\ OneMarkerIsEnough
    /\ FallbackSplits =>
          /\ txt.chineseText = Compress(Trim(LinesBefore))
          /\ txt.englishText = Compress(Trim(LinesFrom))
          /\ ~HasBlankLine(txt.chineseText) /\ ~HasBlankLine(txt.englishText)
          /\ TrimmedLines(txt.chineseText, 1) = TrimmedLines(LinesBefore, 1)
          /\ TrimmedLines(txt.englishText, 1) = TrimmedLines(LinesFrom, 1)
          /\ TrimmedLines(txt.chineseText, 1) \o TrimmedLines(txt.englishText, 1)
                 = TrimmedLines(txt.text, 1)

\* the fallback splits at the first line and a blank line follows it
C38_Witness ==
    /\ txt.pc = "done"
    /\ txt.text = <<"Hello", "Hello", "Hello", "\n", "\n", "nihao">>
    /\ txt.chineseText = <<>>
    /\ txt.englishText = <<"Hello", "Hello", "Hello", "\n", "nihao">>

----------------------------------------------------------------------------
(* The chain from a capture to a run (Spec)                                 *)

\* reader.onload shows a captured image
CaptureShown == ui'.imageUrl # ui.imageUrl

\* the auto-analyse checkbox was on when the image was captured and is on
\* when it is shown
AutoAnalysisOn ==
    /\ ui.autoAnalyze
    /\ \E l \in loads \ loads' : l.img = ui'.imageUrl /\ l.autoAnalyze

\* an analyzeImage call for the image shown is now awaiting the service
AnalysisStarted ==
    analyses'[ui'.imageUrl] = analyses[ui'.imageUrl] + 1

\* an analyzeImage call for image k resumes
AnalysisResumes(k) == analyses'[k] < analyses[k]

\* the 100 ms timer is armed once, with the flag cleared and a result of the
\* analysis of image k in the English field
TriggerIssuedOnce(k) ==
    /\ clicks' = clicks + 1
    /\ ~ui'.isAnalyzing
    /\ ui'.englishText \in {DescOf(k), NoText}

\* no timer is armed and no run starts
NothingTriggered ==
    /\ clicks' = clicks
    /\ ~ui'.isAnalyzing
    /\ runs' = runs /\ nRuns' = nRuns

\* the call cannot have succeeded: the service has no key to be called with,
\* or the English field holds neither result of an analysis of image k
AnalysisFailed(k) ==
    \/ ~env.openaiKey
    \/ ui'.englishText \notin {DescOf(k), NoText}

TriggerFollowsOutcome(k) ==
    /\ TriggerIssuedOnce(k) \/ NothingTriggered
    /\ AnalysisFailed(k) => NothingTriggered
    /\ runs' = runs

(* C39: with auto-analysis enabled, showing a captured image starts an      *)
(* analysis of it; when an analysis succeeds the processing trigger is      *)
(* issued exactly once, after the analysis flag was cleared, and when it    *)
(* fails nothing is triggered and no run starts at that point.              *)
C39_CaptureChainsToProcessing ==
    [][/\ (CaptureShown /\ AutoAnalysisOn) => AnalysisStarted
       /\ \A k \in Images : AnalysisResumes(k) => TriggerFollowsOutcome(k)]_vars

\* the half of C39 about the trigger
TriggerOnlyOnSuccess ==
    [][\A k \in Images : AnalysisResumes(k) => TriggerFollowsOutcome(k)]_vars

====
